---- MODULE Spec2Model ----
(***************************************************************************)
(* Auction engine of wallymathieu/auctions-api-go: the auction state       *)
(* automata (timed ascending, single sealed bid), the command kernel       *)
(* Handle and the event fold EventsToAuctionStates.                        *)
(*                                                                         *)
(* Conventions.  A time.Time is an integer number of seconds and a         *)
(* time.Duration a number of seconds.  An int64 is a two's complement      *)
(* integer of IntBits bits (the width is scaled down, the wrap-around of   *)
(* + is kept).  A Go map is a function whose DOMAIN is the key set; a      *)
(* range over a map may visit the keys in any order, and sort.Slice may    *)
(* leave equal elements in any order, so every operation that ranges over  *)
(* a map returns the SET of results the program can produce.               *)
(***************************************************************************)
EXTENDS Integers, Sequences, FiniteSets, TLC

VARIABLES repo, events, lastErr, st, stErr,
          auctions, inflight, accepted, persisted, clock, status, onEventErr,
          log, replayed,
          plain, wire, back

\* the variables of the caller of Handle and of the caller of State
coreVars == <<repo, events, lastErr, st, stErr>>

\* the variables of the HTTP host
hostVars ==
    <<auctions, inflight, accepted, persisted, clock, status, onEventErr>>

\* the variables of a run of the event fold
foldVars == <<log, replayed>>

\* the variables of a run of the JSON codec
codecVars == <<plain, wire, back>>

vars == <<coreVars, hostVars, foldVars, codecVars>>

(***************************************************************************)
(* Bounds                                                                  *)
(***************************************************************************)
IntBits == 3
MaxTime == 3
MaxEvents == 3
MaxBids == 2

(***************************************************************************)
(* int64                                                                   *)
(***************************************************************************)
MinInt64 == -(2 ^ (IntBits - 1))
MaxInt64 == (2 ^ (IntBits - 1)) - 1

\* a + b on int64 (wraps around)
Add64(a, b) ==
    LET s == a + b IN
    IF s > MaxInt64 THEN s - (2 ^ IntBits)
    ELSE IF s < MinInt64 THEN s + (2 ^ IntBits)
    ELSE s

(***************************************************************************)
(* Errors (core.go)                                                        *)
(***************************************************************************)
DomainError(type, auctionId, userId, amount) ==
    [Type |-> type, AuctionId |-> auctionId, UserId |-> userId, Amount |-> amount]

nil == DomainError("nil", 0, "", 0)

NewUnknownAuctionError(id) == DomainError("UnknownAuction", id, "", 0)
NewAuctionAlreadyExistsError(id) == DomainError("AuctionAlreadyExists", id, "", 0)
NewAuctionHasEndedError(id) == DomainError("AuctionHasEnded", id, "", 0)
NewAuctionHasNotStartedError(id) == DomainError("AuctionHasNotStarted", id, "", 0)
NewSellerCannotPlaceBidsError(userId, auctionId) ==
    DomainError("SellerCannotPlaceBids", auctionId, userId, 0)
NewMustPlaceBidOverHighestError(amount) ==
    DomainError("MustPlaceBidOverHighestBid", 0, "", amount)
NewAlreadyPlacedBidError == DomainError("AlreadyPlacedBid", 0, "", 0)
UnknownCommandError == DomainError("unknown command type", 0, "", 0)

(***************************************************************************)
(* Value objects                                                           *)
(***************************************************************************)
NewBuyerOrSeller(id, name) == [ID |-> id, Name |-> name, Type |-> "BuyerOrSeller"]
NewSupport(id) == [ID |-> id, Name |-> "", Type |-> "Support"]

NewBid(auctionId, bidder, at, amount) ==
    [ForAuction |-> auctionId, Bidder |-> bidder, At |-> at, Amount |-> amount]

TimedAscending == 0
SingleSealedBid == 1

Blind == "Blind"
Vickrey == "Vickrey"

\* strconv.ParseInt / strconv.Atoi on the decimal texts used by the model
IntOfText ==
    ("-1" :> -1) @@ ("0" :> 0) @@ ("1" :> 1) @@ ("2" :> 2) @@ ("3" :> 3)

\* fmt.Sprintf("%d", n) on the integers used by the model
TextOfInt ==
    (-1 :> "-1") @@ (0 :> "0") @@ (1 :> "1") @@ (2 :> "2") @@ (3 :> "3")

TimedAscendingOptions(reserve, minRaise, timeFrame) ==
    [ReservePrice |-> reserve, MinRaise |-> minRaise, TimeFrame |-> timeFrame]

DefaultTimedAscendingOptions == TimedAscendingOptions(0, 0, 0)

\* TimedAscendingOptions.String
OptionsString(o) ==
    "English|" \o TextOfInt[o.ReservePrice] \o "|" \o TextOfInt[o.MinRaise]
        \o "|" \o TextOfInt[o.TimeFrame]

NewTimedAscendingType(options) ==
    [Type |-> TimedAscending, Options |-> OptionsString(options)]

\* strings.Split(s, "|") on the option strings used by the model; a string
\* without "|" splits into itself
SplitTable ==
    ("English|0|0|0" :> <<"English", "0", "0", "0">>) @@
    ("English|1|1|2" :> <<"English", "1", "1", "2">>) @@
    ("English|0|-1|0" :> <<"English", "0", "-1", "0">>) @@
    ("English|x|1|2" :> <<"English", "x", "1", "2">>)

Split(s) == IF s \in DOMAIN SplitTable THEN SplitTable[s] ELSE <<s>>

ParseTimedAscendingOptions(s) ==
    LET parts == Split(s) IN
    IF Len(parts) # 4 \/ parts[1] # "English"
    THEN [ok |-> FALSE, options |-> DefaultTimedAscendingOptions]
    ELSE IF parts[2] \notin DOMAIN IntOfText
    THEN [ok |-> FALSE, options |-> DefaultTimedAscendingOptions]
    ELSE IF parts[3] \notin DOMAIN IntOfText
    THEN [ok |-> FALSE, options |-> DefaultTimedAscendingOptions]
    ELSE IF parts[4] \notin DOMAIN IntOfText
    THEN [ok |-> FALSE, options |-> DefaultTimedAscendingOptions]
    ELSE [ok |-> TRUE,
          options |-> TimedAscendingOptions(IntOfText[parts[2]],
                                            IntOfText[parts[3]],
                                            IntOfText[parts[4]])]

NewAuction(id, startsAt, title, expiry, seller, auctionType, currency) ==
    [ID |-> id, StartsAt |-> startsAt, Title |-> title, Expiry |-> expiry,
     Seller |-> seller, Type |-> auctionType, Currency |-> currency]

(***************************************************************************)
(* Timed ascending automaton (timed-ascending.go)                          *)
(***************************************************************************)
NewTimedAscendingState(start, expiry, options) ==
    [kind |-> "AwaitingStart", start |-> start, startingExpiry |-> expiry,
     options |-> options]

OngoingState(bids, nextExpiry, options) ==
    [kind |-> "Ongoing", bids |-> bids, nextExpiry |-> nextExpiry,
     options |-> options]

EndedState(bids, expiry, options) ==
    [kind |-> "Ended", bids |-> bids, expiry |-> expiry, options |-> options]

\* AwaitingStartState.Increment that looks at the expiry first
AwaitingStartIncrementEndsAtExpiry(s, now) ==
    IF now >= s.startingExpiry
    THEN EndedState(<<>>, s.startingExpiry, s.options)
    ELSE IF now > s.start
    THEN OngoingState(<<>>, s.startingExpiry, s.options)
    ELSE s

AwaitingStartIncrement(s, now) ==
    IF now > s.start
    THEN IF now < s.startingExpiry
         THEN OngoingState(<<>>, s.startingExpiry, s.options)
         ELSE EndedState(<<>>, s.startingExpiry, s.options)
    ELSE s

\* OngoingState.Increment that ends only after the expiry
OngoingIncrementAfterExpiry(s, now) ==
    IF now > s.nextExpiry
    THEN EndedState(s.bids, s.nextExpiry, s.options)
    ELSE s

OngoingIncrement(s, now) ==
    IF now > s.nextExpiry \/ now = s.nextExpiry
    THEN EndedState(s.bids, s.nextExpiry, s.options)
    ELSE s

\* EndedState.Increment that reopens the auction for a now before the expiry
EndedIncrementReopens(s, now) ==
    IF now < s.expiry THEN OngoingState(s.bids, s.expiry, s.options) ELSE s

EndedIncrement(s, now) == s

\* EndedState.AddBid that takes the bid
EndedAddBidAccepts(s, bid) ==
    [state |-> EndedState(<<bid>> \o s.bids, s.expiry, s.options), err |-> nil]

EndedAddBid(s, bid) ==
    [state |-> s, err |-> NewAuctionHasEndedError(bid.ForAuction)]

\* OngoingState.AddBid that restarts the expiry at bid.At + TimeFrame
OngoingAddBidResetsExpiry(s, bid) ==
    LET now == bid.At
        bidAmount == bid.Amount
        next == OngoingIncrement(s, now)
        newExpiry == now + s.options.TimeFrame
    IN
    IF next.kind = "Ended"
    THEN [state |-> next, err |-> NewAuctionHasEndedError(bid.ForAuction)]
    ELSE IF Len(s.bids) = 0
    THEN [state |-> OngoingState(<<bid>> \o s.bids, newExpiry, s.options),
          err |-> nil]
    ELSE LET highestBid == s.bids[1]
             highestAmount == highestBid.Amount
             minRaiseAmount == s.options.MinRaise
             minAcceptableBid == Add64(highestAmount, minRaiseAmount)
         IN
         IF bidAmount >= minAcceptableBid
         THEN [state |-> OngoingState(<<bid>> \o s.bids, newExpiry, s.options),
               err |-> nil]
         ELSE [state |-> s, err |-> NewMustPlaceBidOverHighestError(highestAmount)]

OngoingAddBid(s, bid) ==
    LET now == bid.At
        bidAmount == bid.Amount
        next == OngoingIncrement(s, now)
        newExpiry == IF now + s.options.TimeFrame > s.nextExpiry
                     THEN now + s.options.TimeFrame
                     ELSE s.nextExpiry
    IN
    IF next.kind = "Ended"
    THEN [state |-> next, err |-> NewAuctionHasEndedError(bid.ForAuction)]
    ELSE IF Len(s.bids) = 0
    THEN [state |-> OngoingState(<<bid>> \o s.bids, newExpiry, s.options),
          err |-> nil]
    ELSE LET highestBid == s.bids[1]
             highestAmount == highestBid.Amount
             minRaiseAmount == s.options.MinRaise
             minAcceptableBid == Add64(highestAmount, minRaiseAmount)
         IN
         IF bidAmount >= minAcceptableBid
         THEN [state |-> OngoingState(<<bid>> \o s.bids, newExpiry, s.options),
               err |-> nil]
         ELSE [state |-> s, err |-> NewMustPlaceBidOverHighestError(highestAmount)]

\* AwaitingStartState.AddBid that answers AuctionHasNotStarted whenever the
\* refreshed state takes no bid
AwaitingStartAddBidNeverEnds(s, bid) ==
    LET next == AwaitingStartIncrement(s, bid.At) IN
    IF next.kind = "Ongoing"
    THEN OngoingAddBid(next, bid)
    ELSE [state |-> next, err |-> NewAuctionHasNotStartedError(bid.ForAuction)]

AwaitingStartAddBid(s, bid) ==
    LET next == AwaitingStartIncrement(s, bid.At) IN
    IF next.kind = "AwaitingStart"
    THEN [state |-> next, err |-> NewAuctionHasNotStartedError(bid.ForAuction)]
    ELSE IF next.kind = "Ongoing"
    THEN OngoingAddBid(next, bid)
    ELSE EndedAddBid(next, bid)

NoWinner == [amount |-> 0, winner |-> "", found |-> FALSE]

AwaitingStartTryGetAmountAndWinner(s) == NoWinner

OngoingTryGetAmountAndWinner(s) == NoWinner

\* EndedState.TryGetAmountAndWinner with >= for the reserve
EndedTryGetAmountAndWinnerAtReserve(s) ==
    IF Len(s.bids) = 0
    THEN NoWinner
    ELSE LET highestBid == s.bids[1] IN
         IF highestBid.Amount >= s.options.ReservePrice
         THEN [amount |-> highestBid.Amount, winner |-> highestBid.Bidder.ID,
               found |-> TRUE]
         ELSE NoWinner

EndedTryGetAmountAndWinner(s) ==
    IF Len(s.bids) = 0
    THEN NoWinner
    ELSE LET highestBid == s.bids[1] IN
         IF highestBid.Amount > s.options.ReservePrice
         THEN [amount |-> highestBid.Amount, winner |-> highestBid.Bidder.ID,
               found |-> TRUE]
         ELSE NoWinner

(***************************************************************************)
(* Single sealed bid automaton                                             *)
(***************************************************************************)
\* the orders in which a range over the map m can visit its entries
RangeOrders(m) ==
    LET n == Cardinality(DOMAIN m) IN
    { [i \in 1..n |-> m[o[i]]] :
        o \in { f \in [1..n -> DOMAIN m] :
                  \A i, j \in 1..n : i # j => f[i] # f[j] } }

\* the results sort.Slice can leave for "amount descending"
SortedByAmountDesc(m) ==
    { l \in RangeOrders(m) :
        \A i, j \in 1..Len(l) : i < j => ~(l[j].Amount > l[i].Amount) }

NewSealedBidState(expiry, options) ==
    [kind |-> "SealedBid", bids |-> <<>>, bidsList |-> <<>>,
     disclosing |-> FALSE, expiry |-> expiry, options |-> options]

\* SealedBidState.Increment that discloses the bids without sorting them
SealedBidIncrementUnsorted(s, now) ==
    IF s.disclosing
    THEN {s}
    ELSE IF now > s.expiry \/ now = s.expiry
    THEN { [kind |-> "SealedBid", bids |-> s.bids, bidsList |-> l,
            disclosing |-> TRUE, expiry |-> s.expiry, options |-> s.options] :
           l \in RangeOrders(s.bids) }
    ELSE {s}

SealedBidIncrement(s, now) ==
    IF s.disclosing
    THEN {s}
    ELSE IF now > s.expiry \/ now = s.expiry
    THEN { [kind |-> "SealedBid", bids |-> s.bids, bidsList |-> l,
            disclosing |-> TRUE, expiry |-> s.expiry, options |-> s.options] :
           l \in SortedByAmountDesc(s.bids) }
    ELSE {s}

\* SealedBidState.AddBid that replaces the bid a bidder already placed
SealedBidAddBidToReplaces(sealedState, bid) ==
    LET auctionId == bid.ForAuction
        userId == bid.Bidder.ID
    IN
    IF sealedState.disclosing
    THEN {[state |-> sealedState, err |-> NewAuctionHasEndedError(auctionId)]}
    ELSE LET newBids == (userId :> bid) @@ sealedState.bids IN
         { [state |-> [kind |-> "SealedBid", bids |-> newBids,
                       bidsList |-> newBidsList,
                       disclosing |-> sealedState.disclosing,
                       expiry |-> sealedState.expiry,
                       options |-> sealedState.options],
            err |-> nil] : newBidsList \in RangeOrders(newBids) }

SealedBidAddBidTo(sealedState, bid) ==
    LET auctionId == bid.ForAuction
        userId == bid.Bidder.ID
    IN
    IF sealedState.disclosing
    THEN {[state |-> sealedState, err |-> NewAuctionHasEndedError(auctionId)]}
    ELSE IF userId \in DOMAIN sealedState.bids
    THEN {[state |-> sealedState, err |-> NewAlreadyPlacedBidError]}
    ELSE LET newBids == (userId :> bid) @@ sealedState.bids IN
         { [state |-> [kind |-> "SealedBid", bids |-> newBids,
                       bidsList |-> newBidsList,
                       disclosing |-> sealedState.disclosing,
                       expiry |-> sealedState.expiry,
                       options |-> sealedState.options],
            err |-> nil] : newBidsList \in RangeOrders(newBids) }

SealedBidAddBid(s, bid) ==
    UNION { SealedBidAddBidTo(next, bid) : next \in SealedBidIncrement(s, bid.At) }

SealedBidGetBids(s) ==
    IF s.disclosing THEN {s.bidsList} ELSE RangeOrders(s.bids)

\* SealedBidState.TryGetAmountAndWinner that charges the highest amount for
\* Vickrey too
SealedBidTryGetAmountAndWinnerFirstPrice(s) ==
    IF ~s.disclosing \/ Len(s.bidsList) = 0
    THEN NoWinner
    ELSE LET highestBid == s.bidsList[1] IN
         [amount |-> highestBid.Amount, winner |-> highestBid.Bidder.ID,
          found |-> TRUE]

SealedBidTryGetAmountAndWinner(s) ==
    IF ~s.disclosing \/ Len(s.bidsList) = 0
    THEN NoWinner
    ELSE LET highestBid == s.bidsList[1] IN
         IF s.options = Vickrey
         THEN IF Len(s.bidsList) > 1
              THEN [amount |-> s.bidsList[2].Amount,
                    winner |-> highestBid.Bidder.ID, found |-> TRUE]
              ELSE [amount |-> highestBid.Amount,
                    winner |-> highestBid.Bidder.ID, found |-> TRUE]
         ELSE [amount |-> highestBid.Amount, winner |-> highestBid.Bidder.ID,
               found |-> TRUE]

(***************************************************************************)
(* The State interface: dispatch on the dynamic type                       *)
(***************************************************************************)
Increment(s, now) ==
    CASE s.kind = "AwaitingStart" -> {AwaitingStartIncrement(s, now)}
      [] s.kind = "Ongoing" -> {OngoingIncrement(s, now)}
      [] s.kind = "Ended" -> {EndedIncrement(s, now)}
      [] s.kind = "SealedBid" -> SealedBidIncrement(s, now)

AddBid(s, bid) ==
    CASE s.kind = "AwaitingStart" -> {AwaitingStartAddBid(s, bid)}
      [] s.kind = "Ongoing" -> {OngoingAddBid(s, bid)}
      [] s.kind = "Ended" -> {EndedAddBid(s, bid)}
      [] s.kind = "SealedBid" -> SealedBidAddBid(s, bid)

GetBids(s) ==
    CASE s.kind = "AwaitingStart" -> {<<>>}
      [] s.kind = "Ongoing" -> {s.bids}
      [] s.kind = "Ended" -> {s.bids}
      [] s.kind = "SealedBid" -> SealedBidGetBids(s)

TryGetAmountAndWinner(s) ==
    CASE s.kind = "AwaitingStart" -> AwaitingStartTryGetAmountAndWinner(s)
      [] s.kind = "Ongoing" -> OngoingTryGetAmountAndWinner(s)
      [] s.kind = "Ended" -> EndedTryGetAmountAndWinner(s)
      [] s.kind = "SealedBid" -> SealedBidTryGetAmountAndWinner(s)

HasEnded(s) ==
    CASE s.kind = "AwaitingStart" -> FALSE
      [] s.kind = "Ongoing" -> FALSE
      [] s.kind = "Ended" -> TRUE
      [] s.kind = "SealedBid" -> s.disclosing

(***************************************************************************)
(* Auction descriptor                                                      *)
(***************************************************************************)
\* ValidateBid that compares the whole User instead of its ID
ValidateBidComparesUser(a, bid) ==
    IF bid.Bidder = a.Seller
    THEN NewSellerCannotPlaceBidsError(bid.Bidder.ID, a.ID)
    ELSE nil

ValidateBid(a, bid) ==
    IF bid.Bidder.ID = a.Seller.ID
    THEN NewSellerCannotPlaceBidsError(bid.Bidder.ID, a.ID)
    ELSE nil

CreateEmptyState(a) ==
    IF a.Type.Type = SingleSealedBid
    THEN NewSealedBidState(a.Expiry, a.Type.Options)
    ELSE IF a.Type.Type = TimedAscending
    THEN LET parsed == ParseTimedAscendingOptions(a.Type.Options) IN
         IF ~parsed.ok
         THEN NewTimedAscendingState(a.StartsAt, a.Expiry,
                                     DefaultTimedAscendingOptions)
         ELSE NewTimedAscendingState(a.StartsAt, a.Expiry, parsed.options)
    ELSE NewSealedBidState(a.Expiry, Blind)

(***************************************************************************)
(* Commands, events, repository and the command kernel (command.go)        *)
(***************************************************************************)
AddAuctionCommand(time, auction) ==
    [type |-> "AddAuction", Time |-> time, Auction |-> auction]

PlaceBidCommand(time, bid) == [type |-> "PlaceBid", Time |-> time, Bid |-> bid]

AuctionAddedEvent(time, auction) ==
    [type |-> "AuctionAdded", Time |-> time, Auction |-> auction]

BidAcceptedEvent(time, bid) == [type |-> "BidAccepted", Time |-> time, Bid |-> bid]

NoEvent == [type |-> "nil"]

Entry(auction, state) == [Auction |-> auction, State |-> state]

EmptyRepository == <<>>

copyRepository(r) == [k \in DOMAIN r |-> r[k]]

\* ApplyEvent that drops the state returned by AddBid
ApplyEventKeepsOldState(r, e) ==
    IF e.type = "AuctionAdded"
    THEN LET auction == e.Auction
             state == CreateEmptyState(auction)
         IN {(auction.ID :> Entry(auction, state)) @@ r}
    ELSE IF e.type = "BidAccepted"
    THEN LET bid == e.Bid IN
         IF bid.ForAuction \in DOMAIN r
         THEN LET entry == r[bid.ForAuction] IN
              { [r EXCEPT ![bid.ForAuction] = Entry(entry.Auction, entry.State)] :
                  out \in AddBid(entry.State, bid) }
         ELSE {r}
    ELSE {r}

\* ApplyEvent that drops every entry when a bid has no auction
ApplyEventOrphanClears(r, e) ==
    IF e.type = "AuctionAdded"
    THEN LET auction == e.Auction
             state == CreateEmptyState(auction)
         IN {(auction.ID :> Entry(auction, state)) @@ r}
    ELSE IF e.type = "BidAccepted"
    THEN LET bid == e.Bid IN
         IF bid.ForAuction \in DOMAIN r
         THEN LET entry == r[bid.ForAuction] IN
              { [r EXCEPT ![bid.ForAuction] = Entry(entry.Auction, out.state)] :
                  out \in AddBid(entry.State, bid) }
         ELSE {EmptyRepository}
    ELSE {r}

\* ApplyEvent that keeps the entry an AuctionAddedEvent finds
ApplyEventKeepsFirst(r, e) ==
    IF e.type = "AuctionAdded"
    THEN LET auction == e.Auction
             state == CreateEmptyState(auction)
         IN {r @@ (auction.ID :> Entry(auction, state))}
    ELSE IF e.type = "BidAccepted"
    THEN LET bid == e.Bid IN
         IF bid.ForAuction \in DOMAIN r
         THEN LET entry == r[bid.ForAuction] IN
              { [r EXCEPT ![bid.ForAuction] = Entry(entry.Auction, out.state)] :
                  out \in AddBid(entry.State, bid) }
         ELSE {r}
    ELSE {r}

\* one step of the fold: the repositories the event can leave
ApplyEvent(r, e) ==
    IF e.type = "AuctionAdded"
    THEN LET auction == e.Auction
             state == CreateEmptyState(auction)
         IN {(auction.ID :> Entry(auction, state)) @@ r}
    ELSE IF e.type = "BidAccepted"
    THEN LET bid == e.Bid IN
         IF bid.ForAuction \in DOMAIN r
         THEN LET entry == r[bid.ForAuction] IN
              { [r EXCEPT ![bid.ForAuction] = Entry(entry.Auction, out.state)] :
                  out \in AddBid(entry.State, bid) }
         ELSE {r}
    ELSE {r}

RECURSIVE FoldEvents(_, _, _)
FoldEvents(repos, evs, i) ==
    IF i > Len(evs)
    THEN repos
    ELSE FoldEvents(UNION { ApplyEvent(r, evs[i]) : r \in repos }, evs, i + 1)

EventsToAuctionStates(evs) == FoldEvents({EmptyRepository}, evs, 1)

Result(event, r, err) == [event |-> event, repo |-> r, err |-> err]

\* HandleAddAuction without the duplicate check
HandleAddAuctionOverwrites(c, r) ==
    LET auction == c.Auction
        state == CreateEmptyState(auction)
        newRepo == (auction.ID :> Entry(auction, state)) @@ copyRepository(r)
    IN {Result(AuctionAddedEvent(c.Time, auction), newRepo, nil)}

HandleAddAuction(c, r) ==
    LET auction == c.Auction IN
    IF auction.ID \in DOMAIN r
    THEN {Result(NoEvent, r, NewAuctionAlreadyExistsError(auction.ID))}
    ELSE LET state == CreateEmptyState(auction)
             newRepo == (auction.ID :> Entry(auction, state)) @@ copyRepository(r)
         IN {Result(AuctionAddedEvent(c.Time, auction), newRepo, nil)}

\* HandlePlaceBid that stores the state returned with an AddBid error
HandlePlaceBidStoresOnError(c, r) ==
    LET bid == c.Bid
        auctionId == bid.ForAuction
    IN
    IF auctionId \notin DOMAIN r
    THEN {Result(NoEvent, r, NewUnknownAuctionError(auctionId))}
    ELSE LET entry == r[auctionId]
             verr == ValidateBid(entry.Auction, bid)
         IN
         IF verr # nil
         THEN {Result(NoEvent, r, verr)}
         ELSE { IF out.err # nil
                THEN Result(NoEvent,
                            [copyRepository(r) EXCEPT
                               ![auctionId] = Entry(entry.Auction, out.state)],
                            out.err)
                ELSE Result(BidAcceptedEvent(c.Time, bid),
                            [copyRepository(r) EXCEPT
                               ![auctionId] = Entry(entry.Auction, out.state)],
                            nil) :
                out \in AddBid(entry.State, bid) }

\* HandlePlaceBid that answers an unknown auction id without an error
HandlePlaceBidIgnoresUnknown(c, r) ==
    LET bid == c.Bid
        auctionId == bid.ForAuction
    IN
    IF auctionId \notin DOMAIN r
    THEN {Result(NoEvent, r, nil)}
    ELSE LET entry == r[auctionId]
             verr == ValidateBid(entry.Auction, bid)
         IN
         IF verr # nil
         THEN {Result(NoEvent, r, verr)}
         ELSE { IF out.err # nil
                THEN Result(NoEvent, r, out.err)
                ELSE Result(BidAcceptedEvent(c.Time, bid),
                            [copyRepository(r) EXCEPT
                               ![auctionId] = Entry(entry.Auction, out.state)],
                            nil) :
                out \in AddBid(entry.State, bid) }

HandlePlaceBid(c, r) ==
    LET bid == c.Bid
        auctionId == bid.ForAuction
    IN
    IF auctionId \notin DOMAIN r
    THEN {Result(NoEvent, r, NewUnknownAuctionError(auctionId))}
    ELSE LET entry == r[auctionId]
             verr == ValidateBid(entry.Auction, bid)
         IN
         IF verr # nil
         THEN {Result(NoEvent, r, verr)}
         ELSE { IF out.err # nil
                THEN Result(NoEvent, r, out.err)
                ELSE Result(BidAcceptedEvent(c.Time, bid),
                            [copyRepository(r) EXCEPT
                               ![auctionId] = Entry(entry.Auction, out.state)],
                            nil) :
                out \in AddBid(entry.State, bid) }

Handle(cmd, r) ==
    IF cmd.type = "AddAuction" THEN HandleAddAuction(cmd, r)
    ELSE IF cmd.type = "PlaceBid" THEN HandlePlaceBid(cmd, r)
    ELSE {Result(NoEvent, r, UnknownCommandError)}

GetAuctions(r) == { r[k].Auction : k \in DOMAIN r }

(***************************************************************************)
(* Inputs                                                                  *)
(***************************************************************************)
Times == 1..MaxTime
Amounts == {0, 1, MaxInt64}
AuctionIds == {1, 2}

seller == NewBuyerOrSeller("u1", "Seller")
Bidders ==
    {NewBuyerOrSeller("u1", "Alias"), NewBuyerOrSeller("u2", "Buyer"),
     NewSupport("u3")}

AuctionTypes ==
    {[Type |-> TimedAscending, Options |-> "English|0|0|0"],
     [Type |-> TimedAscending, Options |-> "English|1|1|2"],
     [Type |-> TimedAscending, Options |-> "English|0|-1|0"],
     [Type |-> TimedAscending, Options |-> "English|x|1|2"],
     [Type |-> SingleSealedBid, Options |-> Blind],
     [Type |-> SingleSealedBid, Options |-> Vickrey]}

\* every auction starts at the first instant and expires at the last one
sampleEndsAt == MaxTime

\* auctions that start at the last instant, after their expiry
LateAuctions ==
    { NewAuction(1, sampleEndsAt, "late", sampleEndsAt - 1, seller, t, "SEK") :
        t \in {[Type |-> TimedAscending, Options |-> "English|0|0|0"],
               [Type |-> SingleSealedBid, Options |-> Blind]} }

\* the auctions whose State is driven directly
StateAuctions ==
    { NewAuction(1, 1, "auction", sampleEndsAt, seller, t, "SEK") :
        t \in AuctionTypes } \cup LateAuctions

StateBids ==
    { NewBid(1, u, at, amount) :
        u \in Bidders, at \in Times, amount \in Amounts }

\* the auctions and bids sent to Handle: the well-formed types under the
\* first id, a sealed-bid auction under the second
Auctions ==
    { a \in StateAuctions : a.Type.Options # "English|x|1|2" } \cup
    { NewAuction(2, 1, "other", sampleEndsAt, seller,
                 [Type |-> SingleSealedBid, Options |-> Vickrey], "SEK") }

Bids ==
    { NewBid(id, u, at, amount) :
        id \in AuctionIds, u \in Bidders, at \in Times,
        amount \in Amounts \ {0} }

Commands ==
    { AddAuctionCommand(0, a) : a \in Auctions } \cup
    { PlaceBidCommand(b.At, b) : b \in Bids }

NoState == [kind |-> "none"]

\* the host before NewApp
HostOff ==
    /\ auctions = EmptyRepository
    /\ inflight = <<>>
    /\ accepted = <<>>
    /\ persisted = <<>>
    /\ clock = 0
    /\ status = 0
    /\ onEventErr = FALSE

\* no event log is being replayed
FoldOff ==
    /\ log = <<>>
    /\ replayed = EmptyRepository

NoValue == [kind |-> "none"]

\* no value is being encoded
CodecOff ==
    /\ plain = NoValue
    /\ wire = NoValue
    /\ back = NoValue

(***************************************************************************)
(* Spec: a caller that feeds commands to Handle, keeps the returned        *)
(* repository and collects the emitted events                              *)
(***************************************************************************)
Init ==
    /\ repo = EmptyRepository
    /\ events = <<>>
    /\ lastErr = nil
    /\ st = NoState
    /\ stErr = nil
    /\ HostOff
    /\ FoldOff
    /\ CodecOff

Call(cmd) ==
    \E out \in Handle(cmd, repo) :
        /\ out.err # nil \/ Len(events) < MaxEvents
        /\ repo' = out.repo
        /\ events' = IF out.event.type = "nil" THEN events
                      ELSE Append(events, out.event)
        /\ lastErr' = out.err
        /\ UNCHANGED <<st, stErr, hostVars, foldVars, codecVars>>

DoAddAuction == \E a \in Auctions : Call(AddAuctionCommand(0, a))

DoPlaceBid == \E b \in Bids : Call(PlaceBidCommand(b.At, b))

Next == DoAddAuction \/ DoPlaceBid

Spec == Init /\ [][Next]_vars

(***************************************************************************)
(* StateSpec: a caller that drives one State value through the State       *)
(* interface, keeping the state each call returns (as the tests and the    *)
(* event fold do)                                                          *)
(***************************************************************************)
NumBids(s) ==
    CASE s.kind = "AwaitingStart" -> 0
      [] s.kind = "Ongoing" -> Len(s.bids)
      [] s.kind = "Ended" -> Len(s.bids)
      [] s.kind = "SealedBid" -> Cardinality(DOMAIN s.bids)

StateInit ==
    /\ repo = EmptyRepository
    /\ events = <<>>
    /\ lastErr = nil
    /\ st \in { CreateEmptyState(a) : a \in StateAuctions }
    /\ stErr = nil
    /\ HostOff
    /\ FoldOff
    /\ CodecOff

StateIncrement ==
    \E now \in Times :
        /\ st' \in Increment(st, now)
        /\ stErr' = nil
        /\ UNCHANGED <<repo, events, lastErr, hostVars, foldVars, codecVars>>

StateAddBid ==
    \E bid \in StateBids :
        \E out \in AddBid(st, bid) :
            /\ out.err # nil \/ NumBids(st) < MaxBids
            /\ st' = out.state
            /\ stErr' = out.err
            /\ UNCHANGED <<repo, events, lastErr, hostVars, foldVars, codecVars>>

StateNext == StateIncrement \/ StateAddBid

StateSpec == StateInit /\ [][StateNext]_vars

(***************************************************************************)
(* HostSpec: the HTTP host (handlers.go).  Every request runs in its own   *)
(* goroutine; AppState is the only shared object and takes no lock.  A     *)
(* write request is three steps: GetRepository and Handle (Handle works on *)
(* the request's own snapshot), UpdateRepository, and onEvent with the     *)
(* response.  GetRepository and UpdateRepository are each taken as one     *)
(* step, so the interleavings inside sync.Map.Range and inside the Store   *)
(* loop are not explored: every behaviour below is one of the program.     *)
(***************************************************************************)
Writers == {"w1", "w2"}

IdleSlot == [pc |-> "idle", event |-> NoEvent, newRepo |-> EmptyRepository]

\* AppState.GetRepository: the entries of the sync.Map as a Repository
GetRepository(m) == [k \in DOMAIN m |-> m[k]]

\* AppState.UpdateRepository: Store every entry of r
UpdateRepository(m, r) == r @@ m

AddAuctionRequest(id, startsAt, title, endsAt, currency, type) ==
    [ID |-> id, StartsAt |-> startsAt, Title |-> title, EndsAt |-> endsAt,
     Currency |-> currency, Type |-> type]

\* the auction createAuction builds from the request and the caller
RequestedAuction(req, user) ==
    LET auctionType ==
            IF req.Type.Type # 0
            THEN req.Type
            ELSE NewTimedAscendingType(DefaultTimedAscendingOptions)
    IN [ID |-> req.ID, StartsAt |-> req.StartsAt, Title |-> req.Title,
        Expiry |-> req.EndsAt, Seller |-> user, Type |-> auctionType,
        Currency |-> req.Currency]

\* the view of one auction getAuction answers with
AuctionResponse(entry, bids, w) ==
    [status |-> 200, ID |-> entry.Auction.ID, Bids |-> bids,
     hasWinner |-> w.found, Winner |-> w.winner, WinnerPrice |-> w.amount]

NotFoundResponse ==
    [status |-> 404, ID |-> 0, Bids |-> <<>>, hasWinner |-> FALSE,
     Winner |-> "", WinnerPrice |-> 0]

\* getAuction: the responses the handler can write for the id
getAuction(m, id) ==
    LET r == GetRepository(m) IN
    IF id \notin DOMAIN r
    THEN {NotFoundResponse}
    ELSE LET entry == r[id]
             auctionState == entry.State
         IN { AuctionResponse(entry, bids, TryGetAmountAndWinner(auctionState)) :
                bids \in GetBids(auctionState) }

\* JwtUser: the fields json.Unmarshal fills from the decoded payload
JwtUser(sub, name, uTyp) == [Subject |-> sub, Name |-> name, UType |-> uTyp]

\* the zero domain.User returned with an error
NoUser == [ID |-> "", Name |-> "", Type |-> ""]

Identity(user, failed) == [user |-> user, failed |-> failed]

\* base64 decoding followed by json.Unmarshal into a JwtUser, by table: the
\* header texts stand for the payloads named; a text outside the table
\* (the empty text included) does not decode
JwtTable ==
    [ seller |-> JwtUser("u1", "Seller", "0"),
      buyer |-> JwtUser("u2", "Buyer", "0"),
      other |-> JwtUser("u3", "Other", "0"),
      support |-> JwtUser("u4", "", "1"),
      object |-> JwtUser("", "", ""),
      admin |-> JwtUser("u5", "Admin", "2") ]

\* strings.TrimSpace on the header texts used
TrimSpace(h) == IF h = " " THEN "" ELSE h

\* DecodeJwtUser
DecodeJwtUser(jwtPayload) ==
    IF jwtPayload \notin DOMAIN JwtTable
    THEN Identity(NoUser, TRUE)
    ELSE LET jwtUser == JwtTable[jwtPayload] IN
         IF jwtUser.UType = "0"
         THEN Identity(NewBuyerOrSeller(jwtUser.Subject, jwtUser.Name), FALSE)
         ELSE IF jwtUser.UType = "1"
         THEN Identity(NewSupport(jwtUser.Subject), FALSE)
         ELSE Identity(NoUser, TRUE)

\* extractUserFromRequest without the test of the empty header
extractUserFromRequestAnonymous(authHeader) ==
    LET id == DecodeJwtUser(TrimSpace(authHeader)) IN
    IF id.failed THEN Identity(NewBuyerOrSeller("u2", "Buyer"), FALSE) ELSE id

\* extractUserFromRequest: the x-jwt-payload header of the request
extractUserFromRequest(authHeader) ==
    IF authHeader = ""
    THEN Identity(NoUser, TRUE)
    ELSE DecodeJwtUser(TrimSpace(authHeader))

hostSeller == NewBuyerOrSeller("u1", "Seller")

\* headers that carry no identity: missing, blank, not base64, a payload
\* without u_typ, a payload with another u_typ
BadHeaders == {"", " ", "garbage", "object", "admin"}

SellerHeaders == {"seller"}

BidderHeaders == {"buyer", "other"}

HostBidders == {NewBuyerOrSeller("u2", "Buyer"), NewBuyerOrSeller("u3", "Other")}

\* a timed ascending auction under the first id, a sealed-bid auction under
\* the second; both start with the clock and expire at the last instant
AuctionRequests ==
    { AddAuctionRequest(1, 0, "auction", sampleEndsAt, "SEK",
                        [Type |-> TimedAscending, Options |-> "English|1|1|2"]),
      AddAuctionRequest(2, 0, "other", sampleEndsAt, "SEK",
                        [Type |-> SingleSealedBid, Options |-> Vickrey]) }

BidAmounts == {1}

HostInit ==
    /\ repo = EmptyRepository
    /\ events = <<>>
    /\ lastErr = nil
    /\ st = NoState
    /\ stErr = nil
    /\ auctions = EmptyRepository
    /\ inflight = [w \in Writers |-> IdleSlot]
    /\ accepted = <<>>
    /\ persisted = <<>>
    /\ clock = 1
    /\ status = 0
    /\ onEventErr = FALSE
    /\ FoldOff
    /\ CodecOff

\* the goroutine a new request runs in: every idle one behaves alike, the
\* first is taken
NextWriter ==
    IF inflight["w1"].pc = "idle" THEN "w1"
    ELSE IF inflight["w2"].pc = "idle" THEN "w2"
    ELSE "none"

\* the request stops with an error response
Reject(code) ==
    /\ status' = code
    /\ UNCHANGED <<auctions, inflight, accepted, persisted, clock, onEventErr>>

\* Handle accepted the command: the goroutine goes on to UpdateRepository
Accept(w, out) ==
    /\ Len(accepted) < MaxEvents
    /\ inflight' = [inflight EXCEPT
                      ![w] = [pc |-> "handled", event |-> out.event,
                              newRepo |-> out.repo]]
    /\ accepted' = Append(accepted, out.event)
    /\ UNCHANGED <<auctions, persisted, clock, status, onEventErr>>

\* what a write handler has done when it leaves Handle: the status of the
\* error response it wrote (0 when it wrote none and goes on) and Handle's
\* result
Outcome(code, out) == [status |-> code, out |-> out]

\* createAuction that answers 400 to every failure of Handle
createAuctionOutcomesAllBadRequest(m, now, user, req) ==
    LET cmd == AddAuctionCommand(now, RequestedAuction(req, user))
        r == GetRepository(m)
    IN { IF out.err # nil THEN Outcome(400, out) ELSE Outcome(0, out) :
           out \in Handle(cmd, r) }

\* createAuction from the command to the error responses
createAuctionOutcomes(m, now, user, req) ==
    LET cmd == AddAuctionCommand(now, RequestedAuction(req, user))
        r == GetRepository(m)
    IN { IF out.err # nil
         THEN IF out.err.Type = "AuctionAlreadyExists"
              THEN Outcome(409, out)
              ELSE Outcome(400, out)
         ELSE Outcome(0, out) :
           out \in Handle(cmd, r) }

\* placeBid from the lookup of the id to the error responses
placeBidOutcomes(m, now, user, id, amount) ==
    LET r == GetRepository(m) IN
    IF id \notin DOMAIN r
    THEN {Outcome(404, Result(NoEvent, r, nil))}
    ELSE LET bid == NewBid(id, user, now, amount)
             cmd == PlaceBidCommand(now, bid)
         IN { IF out.err # nil
              THEN IF out.err.Type = "UnknownAuction"
                   THEN Outcome(404, out)
                   ELSE Outcome(400, out)
              ELSE Outcome(0, out) :
                out \in Handle(cmd, r) }

\* createAuction up to the error responses
createAuction(w, decodes, header, req) ==
    /\ w = NextWriter
    /\ IF ~decodes
       THEN Reject(400)
       ELSE LET id == extractUserFromRequest(header) IN
            IF id.failed
            THEN Reject(401)
            ELSE \E o \in createAuctionOutcomes(auctions, clock, id.user, req) :
                    IF o.status # 0 THEN Reject(o.status) ELSE Accept(w, o.out)

\* placeBid up to the error responses
placeBid(w, decodes, header, id, amount) ==
    /\ w = NextWriter
    /\ IF ~decodes
       THEN Reject(400)
       ELSE LET usr == extractUserFromRequest(header) IN
            IF usr.failed
            THEN Reject(401)
            ELSE \E o \in placeBidOutcomes(auctions, clock, usr.user, id, amount) :
                    IF o.status # 0 THEN Reject(o.status) ELSE Accept(w, o.out)

\* a write handler that goes on to onEvent without UpdateRepository
StoreSkipped(w) ==
    /\ inflight[w].pc = "handled"
    /\ inflight' = [inflight EXCEPT ![w].pc = "stored"]
    /\ UNCHANGED <<auctions, accepted, persisted, clock, status, onEventErr>>

\* state.UpdateRepository(newRepo) of createAuction and placeBid
Store(w) ==
    /\ inflight[w].pc = "handled"
    /\ auctions' = UpdateRepository(auctions, inflight[w].newRepo)
    /\ inflight' = [inflight EXCEPT ![w].pc = "stored"]
    /\ UNCHANGED <<accepted, persisted, clock, status, onEventErr>>

\* the end of a write handler that answers 500 and takes the entry of the
\* event out of the sync.Map when onEvent fails
NotifyRollsBack(w, ok) ==
    /\ inflight[w].pc = "stored"
    /\ persisted' = Append(persisted, inflight[w].event)
    /\ onEventErr' = ~ok
    /\ status' = IF ok THEN 200 ELSE 500
    /\ auctions' =
          IF ok THEN auctions
          ELSE LET e == inflight[w].event
                   id == IF e.type = "AuctionAdded" THEN e.Auction.ID
                         ELSE e.Bid.ForAuction
               IN [k \in DOMAIN auctions \ {id} |-> auctions[k]]
    /\ inflight' = [inflight EXCEPT ![w] = IdleSlot]
    /\ UNCHANGED <<accepted, clock>>

\* the end of a write handler: onEvent(event), whose error is dropped, and
\* the 200 response
Notify(w, ok) ==
    /\ inflight[w].pc = "stored"
    /\ persisted' = Append(persisted, inflight[w].event)
    /\ onEventErr' = ~ok
    /\ status' = 200
    /\ inflight' = [inflight EXCEPT ![w] = IdleSlot]
    /\ UNCHANGED <<auctions, accepted, clock>>

DoCreateAuction ==
    /\ \E w \in Writers : \E header \in SellerHeaders :
          \E req \in AuctionRequests : createAuction(w, TRUE, header, req)
    /\ UNCHANGED <<coreVars, foldVars, codecVars>>

DoPlaceBidRequest ==
    /\ \E w \in Writers : \E header \in BidderHeaders : \E id \in AuctionIds :
          \E amount \in BidAmounts : placeBid(w, TRUE, header, id, amount)
    /\ UNCHANGED <<coreVars, foldVars, codecVars>>

DoStore ==
    /\ \E w \in Writers : Store(w)
    /\ UNCHANGED <<coreVars, foldVars, codecVars>>

DoNotify ==
    /\ \E w \in Writers : \E ok \in BOOLEAN : Notify(w, ok)
    /\ UNCHANGED <<coreVars, foldVars, codecVars>>

DoGetAuction ==
    /\ \E id \in AuctionIds : \E resp \in getAuction(auctions, id) :
          status' = resp.status
    /\ UNCHANGED <<auctions, inflight, accepted, persisted, clock, onEventErr>>
    /\ UNCHANGED <<coreVars, foldVars, codecVars>>

\* a clock that starts over after the last instant
TickWraps ==
    /\ clock' = IF clock < MaxTime THEN clock + 1 ELSE 1
    /\ UNCHANGED <<auctions, inflight, accepted, persisted, status, onEventErr>>
    /\ UNCHANGED <<coreVars, foldVars, codecVars>>

\* the injected clock moves on
Tick ==
    /\ clock < MaxTime
    /\ clock' = clock + 1
    /\ UNCHANGED <<auctions, inflight, accepted, persisted, status, onEventErr>>
    /\ UNCHANGED <<coreVars, foldVars, codecVars>>

HostNext ==
    \/ DoCreateAuction
    \/ DoPlaceBidRequest
    \/ DoStore
    \/ DoNotify
    \/ DoGetAuction
    \/ Tick

HostSpec == HostInit /\ [][HostNext]_vars

(***************************************************************************)
(* SerialHostSpec: the host behind a single-writer discipline: a write     *)
(* request starts only when no other write request is in flight            *)
(***************************************************************************)
NoWriteInFlight == \A w \in Writers : inflight[w].pc = "idle"

DoCreateAuctionAlone == NoWriteInFlight /\ DoCreateAuction

DoPlaceBidRequestAlone == NoWriteInFlight /\ DoPlaceBidRequest

SerialHostNext ==
    \/ DoCreateAuctionAlone
    \/ DoPlaceBidRequestAlone
    \/ DoStore
    \/ DoNotify
    \/ DoGetAuction
    \/ Tick

SerialHostSpec == HostInit /\ [][SerialHostNext]_vars

(***************************************************************************)
(* PacedSpec: the kernel behind a clock that never goes back: every        *)
(* PlaceBid command carries the instant of the clock as bid.at             *)
(***************************************************************************)
\* a timed ascending auction with a soft close and a sealed-bid auction,
\* both open from the first instant and expiring before the last one
PacedAuctions ==
    { NewAuction(1, 0, "auction", sampleEndsAt - 1, seller,
                 [Type |-> TimedAscending, Options |-> "English|1|1|2"], "SEK"),
      NewAuction(2, 0, "other", sampleEndsAt - 1, seller,
                 [Type |-> SingleSealedBid, Options |-> Vickrey], "SEK") }

DoAddAuctionNow == \E a \in PacedAuctions : Call(AddAuctionCommand(clock, a))

\* the bids of the two buyers
PacedBids == { b \in Bids : b.Bidder.ID # seller.ID }

DoPlaceBidNow ==
    \E b \in PacedBids : b.At = clock /\ Call(PlaceBidCommand(clock, b))

PacedNext == DoAddAuctionNow \/ DoPlaceBidNow \/ Tick

PacedSpec == Init /\ [][PacedNext]_vars

(***************************************************************************)
(* OpenHostSpec: the single-writer host reached by every client: requests  *)
(* arrive with and without an identity, with bodies that decode and bodies *)
(* that do not, all at the first instant of the clock                      *)
(***************************************************************************)
DoCreateAuctionOpen ==
    /\ NoWriteInFlight
    /\ \E w \in Writers : \E decodes \in BOOLEAN :
          \E header \in SellerHeaders \cup BadHeaders :
             \E req \in AuctionRequests : createAuction(w, decodes, header, req)
    /\ UNCHANGED <<coreVars, foldVars, codecVars>>

DoPlaceBidRequestOpen ==
    /\ NoWriteInFlight
    /\ \E w \in Writers : \E decodes \in BOOLEAN :
          \E header \in BidderHeaders \cup BadHeaders : \E id \in AuctionIds :
             \E amount \in BidAmounts : placeBid(w, decodes, header, id, amount)
    /\ UNCHANGED <<coreVars, foldVars, codecVars>>

OpenHostNext ==
    \/ DoCreateAuctionOpen
    \/ DoPlaceBidRequestOpen
    \/ DoStore
    \/ DoNotify

OpenHostSpec == HostInit /\ [][OpenHostNext]_vars

(***************************************************************************)
(* ReplaySpec: one run of the loop of EventsToAuctionStates over an event  *)
(* log read from outside: log is the part of the log consumed so far and   *)
(* replayed the repository the loop holds after it                         *)
(***************************************************************************)
MaxLog == MaxEvents + 1

\* the instants just before the expiry and at the expiry
LogTimes == {sampleEndsAt - 1, sampleEndsAt}

LogAuctions ==
    { NewAuction(1, 1, "auction", sampleEndsAt, seller,
                 [Type |-> SingleSealedBid, Options |-> Blind], "SEK"),
      NewAuction(1, 1, "again", sampleEndsAt, seller,
                 [Type |-> SingleSealedBid, Options |-> Vickrey], "SEK"),
      NewAuction(2, 1, "other", sampleEndsAt, seller,
                 [Type |-> TimedAscending, Options |-> "English|0|0|0"], "SEK") }

LogEvents ==
    { AuctionAddedEvent(0, a) : a \in LogAuctions } \cup
    { BidAcceptedEvent(at, NewBid(id, u, at, 1)) :
        id \in AuctionIds, u \in HostBidders, at \in LogTimes }

ReplayInit ==
    /\ repo = EmptyRepository
    /\ events = <<>>
    /\ lastErr = nil
    /\ st = NoState
    /\ stErr = nil
    /\ HostOff
    /\ CodecOff
    /\ log = <<>>
    /\ replayed = EmptyRepository

\* one iteration of the loop
ReplayEvent ==
    /\ Len(log) < MaxLog
    /\ \E e \in LogEvents :
          /\ log' = Append(log, e)
          /\ replayed' \in ApplyEvent(replayed, e)
    /\ UNCHANGED <<coreVars, hostVars, codecVars>>

ReplayNext == ReplayEvent

ReplaySpec == ReplayInit /\ [][ReplayNext]_vars

(***************************************************************************)
(* JSON codec (core.go, timed-ascending.go, command.go).  A Go string is   *)
(* a sequence of one-character strings here, so that formatting, splitting *)
(* and matching are computed character by character.  A JSON string is the *)
(* text between two quotes (the alphabet below needs no escapes), a JSON   *)
(* object a record of its members, a JSON number and a timestamp the       *)
(* integer itself.                                                         *)
(***************************************************************************)
Quote == "\""

DigitChars == <<"0", "1", "2", "3", "4", "5", "6", "7", "8", "9">>

DigitValue ==
    [c \in { DigitChars[i] : i \in DOMAIN DigitChars } |->
        (CHOOSE i \in DOMAIN DigitChars : DigitChars[i] = c) - 1]

\* the characters the class A-Z of ParseAmount's pattern matches
UpperChars ==
    {"A", "B", "C", "D", "E", "F", "G", "H", "I", "J", "K", "L", "M", "N",
     "O", "P", "Q", "R", "S", "T", "U", "V", "W", "X", "Y", "Z"}

EnglishText == <<"E", "n", "g", "l", "i", "s", "h">>
VickreyText == <<"V", "i", "c", "k", "r", "e", "y">>
BlindText == <<"B", "l", "i", "n", "d">>
BuyerOrSellerText ==
    <<"B", "u", "y", "e", "r", "O", "r", "S", "e", "l", "l", "e", "r">>
SupportText == <<"S", "u", "p", "p", "o", "r", "t">>

\* fmt.Sprintf("%d", n) for n >= 0
RECURSIVE FormatNat(_)
FormatNat(n) ==
    IF n < 10
    THEN <<DigitChars[n + 1]>>
    ELSE FormatNat(n \div 10) \o <<DigitChars[(n % 10) + 1]>>

\* fmt.Sprintf("%d", n)
FormatInt(n) == IF n < 0 THEN <<"-">> \o FormatNat(0 - n) ELSE FormatNat(n)

IsDigits(t) == Len(t) > 0 /\ \A i \in DOMAIN t : t[i] \in DOMAIN DigitValue

RECURSIVE NatOfDigits(_)
NatOfDigits(t) ==
    IF Len(t) = 0
    THEN 0
    ELSE NatOfDigits(SubSeq(t, 1, Len(t) - 1)) * 10 + DigitValue[t[Len(t)]]

Failed == [ok |-> FALSE, value |-> NoValue]

Decoded(v) == [ok |-> TRUE, value |-> v]

\* strconv.ParseInt(s, 10, 64) and strconv.Atoi(s): an optional sign, then
\* decimal digits, within the range of the integer type
ParseInt(t) ==
    LET signed == Len(t) > 0 /\ t[1] \in {"+", "-"}
        digits == IF signed THEN Tail(t) ELSE t
    IN
    IF ~IsDigits(digits)
    THEN Failed
    ELSE LET n == NatOfDigits(digits)
             v == IF signed /\ t[1] = "-" THEN 0 - n ELSE n
         IN IF v < MinInt64 \/ v > MaxInt64 THEN Failed ELSE Decoded(v)

\* strings.Split(s, "|")
RECURSIVE SplitText(_)
SplitText(t) ==
    IF \A i \in DOMAIN t : t[i] # "|"
    THEN <<t>>
    ELSE LET i == CHOOSE k \in DOMAIN t :
                      t[k] = "|" /\ \A j \in 1..(k - 1) : t[j] # "|"
         IN <<SubSeq(t, 1, i - 1)>> \o SplitText(SubSeq(t, i + 1, Len(t)))

\* json.Marshal of a string
JSONString(t) == <<Quote>> \o t \o <<Quote>>

\* json.Unmarshal into a string
JSONUnquote(data) ==
    IF Len(data) >= 2 /\ data[1] = Quote /\ data[Len(data)] = Quote
    THEN Decoded(SubSeq(data, 2, Len(data) - 1))
    ELSE Failed

User(id, name, type) == [ID |-> id, Name |-> name, Type |-> type]

UserMarshalJSON(u) ==
    LET s == IF u.Type = BuyerOrSellerText
             THEN BuyerOrSellerText \o <<"|">> \o u.ID \o <<"|">> \o u.Name
             ELSE SupportText \o <<"|">> \o u.ID
    IN JSONString(s)

\* User.UnmarshalJSON into a zero User
UserUnmarshalJSON(data) ==
    LET s == JSONUnquote(data) IN
    IF ~s.ok
    THEN Failed
    ELSE LET parts == SplitText(s.value) IN
         IF Len(parts) = 0
         THEN Failed
         ELSE IF parts[1] = BuyerOrSellerText
         THEN IF Len(parts) # 3
              THEN Failed
              ELSE Decoded(User(parts[2], parts[3], parts[1]))
         ELSE IF parts[1] = SupportText
         THEN IF Len(parts) # 2
              THEN Failed
              ELSE Decoded(User(parts[2], <<>>, parts[1]))
         ELSE Failed

Amount(currency, value) == [Currency |-> currency, Value |-> value]

\* Amount.String
AmountString(a) == a.Currency \o FormatInt(a.Value)

\* ParseAmount: the pattern ^([A-Z]+)(\d+)$ matches a text made of one or
\* more capital letters followed by one or more digits
ParseAmount(s) ==
    IF s = <<>>
    THEN Failed
    ELSE LET letters == { k \in 0..Len(s) : \A j \in 1..k : s[j] \in UpperChars }
             k == CHOOSE n \in letters : \A m \in letters : n >= m
             currencyStr == SubSeq(s, 1, k)
             valueStr == SubSeq(s, k + 1, Len(s))
         IN
         IF k = 0 \/ ~IsDigits(valueStr)
         THEN Failed
         ELSE LET value == ParseInt(valueStr) IN
              IF ~value.ok
              THEN Failed
              ELSE Decoded(Amount(currencyStr, value.value))

AmountMarshalJSON(a) == <<Quote>> \o AmountString(a) \o <<Quote>>

AmountUnmarshalJSON(data) ==
    LET s == IF Len(data) >= 2 /\ data[1] = Quote /\ data[Len(data)] = Quote
             THEN SubSeq(data, 2, Len(data) - 1)
             ELSE data
    IN ParseAmount(s)

\* TimedAscendingOptions.String on texts
OptionsText(o) ==
    EnglishText \o <<"|">> \o FormatInt(o.ReservePrice) \o <<"|">>
        \o FormatInt(o.MinRaise) \o <<"|">> \o FormatInt(o.TimeFrame)

\* ParseTimedAscendingOptions on texts
ParseOptionsText(s) ==
    LET parts == SplitText(s) IN
    IF Len(parts) # 4 \/ parts[1] # EnglishText
    THEN Failed
    ELSE LET reserveAmount == ParseInt(parts[2])
             minRaiseAmount == ParseInt(parts[3])
             seconds == ParseInt(parts[4])
         IN
         IF ~reserveAmount.ok THEN Failed
         ELSE IF ~minRaiseAmount.ok THEN Failed
         ELSE IF ~seconds.ok THEN Failed
         ELSE Decoded(TimedAscendingOptions(reserveAmount.value,
                                            minRaiseAmount.value,
                                            seconds.value))

AuctionType(type, options) == [Type |-> type, Options |-> options]

\* NewTimedAscendingType on texts
NewTimedAscendingTypeText(options) ==
    AuctionType(TimedAscending, OptionsText(options))

NewSingleSealedBidType(options) == AuctionType(SingleSealedBid, options)

AuctionTypeMarshalJSON(t) == JSONString(t.Options)

AuctionTypeUnmarshalJSON(data) ==
    LET s == JSONUnquote(data) IN
    IF ~s.ok
    THEN Failed
    ELSE IF Len(s.value) >= 7 /\ SubSeq(s.value, 1, 7) = EnglishText
    THEN LET options == ParseOptionsText(s.value) IN
         IF ~options.ok
         THEN Failed
         ELSE Decoded(AuctionType(TimedAscending, OptionsText(options.value)))
    ELSE IF s.value = VickreyText \/ s.value = BlindText
    THEN Decoded(AuctionType(SingleSealedBid, s.value))
    ELSE Failed

\* json.Marshal of an Auction and of a Bid: one member per field
AuctionMarshalJSON(a) ==
    [id |-> a.ID, startsAt |-> a.StartsAt, title |-> JSONString(a.Title),
     expiry |-> a.Expiry, user |-> UserMarshalJSON(a.Seller),
     type |-> AuctionTypeMarshalJSON(a.Type),
     currency |-> JSONString(a.Currency)]

AuctionUnmarshalJSON(o) ==
    LET title == JSONUnquote(o.title)
        user == UserUnmarshalJSON(o.user)
        type == AuctionTypeUnmarshalJSON(o.type)
        currency == JSONUnquote(o.currency)
    IN
    IF ~title.ok \/ ~user.ok \/ ~type.ok \/ ~currency.ok
    THEN Failed
    ELSE Decoded(NewAuction(o.id, o.startsAt, title.value, o.expiry,
                            user.value, type.value, currency.value))

BidMarshalJSON(b) ==
    [auction |-> b.ForAuction, user |-> UserMarshalJSON(b.Bidder),
     at |-> b.At, amount |-> b.Amount]

BidUnmarshalJSON(o) ==
    LET user == UserUnmarshalJSON(o.user) IN
    IF ~user.ok
    THEN Failed
    ELSE Decoded(NewBid(o.auction, user.value, o.at, o.amount))

\* MarshalJSON of the two commands and the two events: the $type member,
\* the time and the payload
MessageMarshalJSON(m) ==
    IF m.type \in {"AddAuction", "AuctionAdded"}
    THEN [type |-> m.type, at |-> m.Time,
          auction |-> AuctionMarshalJSON(m.Auction)]
    ELSE [type |-> m.type, at |-> m.Time, bid |-> BidMarshalJSON(m.Bid)]

UnmarshalCommand(data) ==
    IF data.type = "AddAuction"
    THEN LET auction == AuctionUnmarshalJSON(data.auction) IN
         IF ~auction.ok THEN Failed
         ELSE Decoded(AddAuctionCommand(data.at, auction.value))
    ELSE IF data.type = "PlaceBid"
    THEN LET bid == BidUnmarshalJSON(data.bid) IN
         IF ~bid.ok THEN Failed
         ELSE Decoded(PlaceBidCommand(data.at, bid.value))
    ELSE Failed

UnmarshalEvent(data) ==
    IF data.type = "AuctionAdded"
    THEN LET auction == AuctionUnmarshalJSON(data.auction) IN
         IF ~auction.ok THEN Failed
         ELSE Decoded(AuctionAddedEvent(data.at, auction.value))
    ELSE IF data.type = "BidAccepted"
    THEN LET bid == BidUnmarshalJSON(data.bid) IN
         IF ~bid.ok THEN Failed
         ELSE Decoded(BidAcceptedEvent(data.at, bid.value))
    ELSE Failed

\* the encoder and the decoder of each kind of value
Marshal(kind, v) ==
    CASE kind = "User" -> UserMarshalJSON(v)
      [] kind = "Amount" -> AmountMarshalJSON(v)
      [] kind = "AuctionType" -> AuctionTypeMarshalJSON(v)
      [] kind \in {"Command", "Event"} -> MessageMarshalJSON(v)

Unmarshal(kind, data) ==
    CASE kind = "User" -> UserUnmarshalJSON(data)
      [] kind = "Amount" -> AmountUnmarshalJSON(data)
      [] kind = "AuctionType" -> AuctionTypeUnmarshalJSON(data)
      [] kind = "Command" -> UnmarshalCommand(data)
      [] kind = "Event" -> UnmarshalEvent(data)

(***************************************************************************)
(* CodecSpec: a value is encoded, and the encoding is decoded              *)
(***************************************************************************)
CodecIds == {<<"u", "1">>, <<>>}
CodecNames == {<<"A", "n", "n">>, <<>>, <<"A", "|", "B">>}
CodecCurrencies ==
    {<<"S", "E", "K">>, <<"V", "A", "C">>, <<"D", "K", "K">>, <<"E", "u", "r">>}

CodecUsers ==
    { User(id, name, BuyerOrSellerText) : id \in CodecIds, name \in CodecNames }
        \cup { User(id, <<>>, SupportText) : id \in CodecIds }

CodecAmounts ==
    { Amount(c, v) : c \in CodecCurrencies, v \in MinInt64..MaxInt64 }

CodecAuctionTypes ==
    { NewTimedAscendingTypeText(TimedAscendingOptions(r, m, f)) :
        r \in {MinInt64, 0, MaxInt64}, m \in {-1, 0, 1}, f \in {-1, 0, MaxTime} }
        \cup { NewSingleSealedBidType(o) : o \in {BlindText, VickreyText} }

CodecAuctions ==
    { NewAuction(1, 1, <<"c", "a", "r">>, sampleEndsAt, u, t, <<"S", "E", "K">>) :
        u \in { User(<<"u", "1">>, n, BuyerOrSellerText) : n \in CodecNames },
        t \in { NewTimedAscendingTypeText(TimedAscendingOptions(0, -1, MaxTime)),
                NewSingleSealedBidType(VickreyText) } }

CodecBids ==
    { NewBid(1, u, sampleEndsAt, amount) :
        u \in CodecUsers, amount \in {MinInt64, 0, MaxInt64} }

CodecCommands ==
    { AddAuctionCommand(1, a) : a \in CodecAuctions }
        \cup { PlaceBidCommand(1, b) : b \in CodecBids }

CodecEvents ==
    { AuctionAddedEvent(1, a) : a \in CodecAuctions }
        \cup { BidAcceptedEvent(1, b) : b \in CodecBids }

Value(kind, v) == [kind |-> kind, value |-> v]

CodecValues ==
    { Value("User", u) : u \in CodecUsers }
        \cup { Value("Amount", a) : a \in CodecAmounts }
        \cup { Value("AuctionType", t) : t \in CodecAuctionTypes }
        \cup { Value("Command", c) : c \in CodecCommands }
        \cup { Value("Event", e) : e \in CodecEvents }

CodecInit ==
    /\ repo = EmptyRepository
    /\ events = <<>>
    /\ lastErr = nil
    /\ st = NoState
    /\ stErr = nil
    /\ HostOff
    /\ FoldOff
    /\ plain \in CodecValues
    /\ wire = NoValue
    /\ back = NoValue

Encode ==
    /\ wire = NoValue
    /\ wire' = [kind |-> "json", data |-> Marshal(plain.kind, plain.value)]
    /\ UNCHANGED <<plain, back, coreVars, hostVars, foldVars>>

Decode ==
    /\ wire # NoValue
    /\ back = NoValue
    /\ back' = [kind |-> "result", result |-> Unmarshal(plain.kind, wire.data)]
    /\ UNCHANGED <<plain, wire, coreVars, hostVars, foldVars>>

CodecNext == Encode \/ Decode

CodecSpec == CodecInit /\ [][CodecNext]_vars

(***************************************************************************)
(* Properties                                                              *)
(***************************************************************************)
Max(a, b) == IF a >= b THEN a ELSE b

\* the bids a state holds
BidsHeld(s) ==
    CASE s.kind = "Ongoing" -> { s.bids[i] : i \in DOMAIN s.bids }
      [] s.kind = "Ended" -> { s.bids[i] : i \in DOMAIN s.bids }
      [] s.kind = "SealedBid" -> { s.bids[k] : k \in DOMAIN s.bids }
      [] OTHER -> {}

\* the expiry in force for a timed ascending state
ExpiryOf(s) ==
    CASE s.kind = "AwaitingStart" -> s.startingExpiry
      [] s.kind = "Ongoing" -> s.nextExpiry
      [] s.kind = "Ended" -> s.expiry

IsTimedAscendingState(s) == s.kind \in {"AwaitingStart", "Ongoing", "Ended"}

\* same state kind, same bids, same expiry (the visiting order kept in
\* bidsList of a sealed-bid state that is still accepting is not compared)
SameState(a, b) ==
    /\ a.kind = b.kind
    /\ IF a.kind = "SealedBid"
       THEN /\ a.bids = b.bids
            /\ a.disclosing = b.disclosing
            /\ a.expiry = b.expiry
            /\ a.options = b.options
            /\ a.disclosing => a.bidsList = b.bidsList
       ELSE a = b

SameRepository(a, b) ==
    /\ DOMAIN a = DOMAIN b
    /\ \A id \in DOMAIN a :
          /\ a[id].Auction = b[id].Auction
          /\ SameState(a[id].State, b[id].State)

\* C1: folding the events emitted so far with EventsToAuctionStates gives a
\* repository with the same ids, the same Auction descriptors and the same
\* per-auction state as the repository the last Handle call returned.
C1_ReplayEquivalence ==
    /\ EventsToAuctionStates(events) # {}
    /\ \A r \in EventsToAuctionStates(events) : SameRepository(r, repo)

C1_Witness ==
    /\ Len(events) >= 3
    /\ \E id \in DOMAIN repo : Cardinality(BidsHeld(repo[id].State)) >= 2

\* C2: whenever Handle returns an error, the returned repository is the
\* input repository (the targeted auction's state is not advanced) and no
\* event is returned.
C2_FailureLeavesRepository ==
    \A cmd \in Commands : \A out \in Handle(cmd, repo) :
        out.err # nil => out.repo = repo /\ out.event.type = "nil"

C2_Witness ==
    /\ lastErr.Type = "AuctionHasEnded"
    /\ lastErr.AuctionId \in DOMAIN repo
    /\ repo[lastErr.AuctionId].State.kind = "AwaitingStart"

\* C3: AddAuction for an id that is already a key fails with
\* AuctionAlreadyExists; at most one AuctionAddedEvent is emitted per id, and
\* the descriptor and the accepted bids stored under an id are never replaced.
C3_DuplicateAuctionRejected ==
    /\ \A a \in Auctions : a.ID \in DOMAIN repo =>
          \A out \in Handle(AddAuctionCommand(0, a), repo) :
              /\ out.err = NewAuctionAlreadyExistsError(a.ID)
              /\ out.repo = repo
    /\ \A i, j \in DOMAIN events :
          (/\ events[i].type = "AuctionAdded"
           /\ events[j].type = "AuctionAdded"
           /\ events[i].Auction.ID = events[j].Auction.ID) => i = j
    /\ \A i \in DOMAIN events :
          /\ events[i].type = "AuctionAdded" =>
                /\ events[i].Auction.ID \in DOMAIN repo
                /\ repo[events[i].Auction.ID].Auction = events[i].Auction
          /\ events[i].type = "BidAccepted" =>
                /\ events[i].Bid.ForAuction \in DOMAIN repo
                /\ events[i].Bid \in BidsHeld(repo[events[i].Bid.ForAuction].State)

C3_Witness ==
    /\ lastErr.Type = "AuctionAlreadyExists"
    /\ lastErr.AuctionId \in DOMAIN repo
    /\ BidsHeld(repo[lastErr.AuctionId].State) # {}

\* C4: PlaceBid for an id that is not a key fails with UnknownAuction, emits
\* no event and adds no entry; every entry comes from an AddAuction.
C4_UnknownAuctionRejected ==
    /\ \A b \in Bids : b.ForAuction \notin DOMAIN repo =>
          \A out \in Handle(PlaceBidCommand(b.At, b), repo) :
              /\ out.err = NewUnknownAuctionError(b.ForAuction)
              /\ out.event.type = "nil"
              /\ out.repo = repo
    /\ \A id \in DOMAIN repo :
          \E i \in DOMAIN events :
              events[i].type = "AuctionAdded" /\ events[i].Auction.ID = id

C4_Witness ==
    /\ lastErr.Type = "UnknownAuction"
    /\ lastErr.AuctionId \notin DOMAIN repo
    /\ DOMAIN repo # {}

\* C5: no bid held by any auction's state and no emitted BidAcceptedEvent has
\* the seller's id as bidder id; a PlaceBid by the seller fails with
\* SellerCannotPlaceBids whatever the state, the time and the amount.
C5_SellerExclusion ==
    /\ \A id \in DOMAIN repo : \A b \in BidsHeld(repo[id].State) :
          b.Bidder.ID # repo[id].Auction.Seller.ID
    /\ \A i \in DOMAIN events :
          events[i].type = "BidAccepted" =>
              events[i].Bid.Bidder.ID #
                  repo[events[i].Bid.ForAuction].Auction.Seller.ID
    /\ \A b \in Bids :
          (/\ b.ForAuction \in DOMAIN repo
           /\ b.Bidder.ID = repo[b.ForAuction].Auction.Seller.ID) =>
              \A out \in Handle(PlaceBidCommand(b.At, b), repo) :
                  out.err = NewSellerCannotPlaceBidsError(b.Bidder.ID, b.ForAuction)

C5_Witness ==
    /\ lastErr.Type = "SellerCannotPlaceBids"
    /\ lastErr.AuctionId \in DOMAIN repo
    /\ BidsHeld(repo[lastErr.AuctionId].State) # {}

\* C6: for every reachable state with HasEnded (EndedState, or a disclosing
\* SealedBidState), AddBid fails with AuctionHasEnded for every bid and the
\* returned state holds exactly the same bids.
C6_NoPostEndAcceptance ==
    HasEnded(st) =>
        \A bid \in StateBids : \A out \in AddBid(st, bid) :
            /\ out.err = NewAuctionHasEndedError(bid.ForAuction)
            /\ GetBids(out.state) = GetBids(st)
            /\ BidsHeld(out.state) = BidsHeld(st)

C6_Witness ==
    /\ st.kind = "Ended"
    /\ Len(st.bids) >= 1
    /\ stErr.Type = "AuctionHasEnded"

\* C7 (as stated): an Ongoing state that holds a bid and is not ended at
\* bid.At accepts the bid if and only if bid.amount >= bids[0].amount +
\* minRaise; a rejection is MustPlaceBidOverHighest(bids[0].amount) and leaves
\* the state unchanged; with no bids the first bid is accepted whatever its
\* amount.
C7_MinimumRaiseRule ==
    st.kind = "Ongoing" =>
        \A bid \in StateBids : bid.At < st.nextExpiry =>
            \A out \in AddBid(st, bid) :
                IF Len(st.bids) = 0
                THEN out.err = nil
                ELSE /\ out.err = nil <=>
                          bid.Amount >= st.bids[1].Amount + st.options.MinRaise
                     /\ out.err # nil =>
                          /\ out.err =
                                NewMustPlaceBidOverHighestError(st.bids[1].Amount)
                          /\ out.state = st

\* C8 (as stated): in every reachable Ongoing or Ended state bids[0].amount
\* is the maximum amount over all bids of the state, and the winner an ended
\* auction reports is the bidder of the maximum bid.
C8_HeadIsHighest ==
    st.kind \in {"Ongoing", "Ended"} =>
        /\ \A i \in DOMAIN st.bids : st.bids[1].Amount >= st.bids[i].Amount
        /\ TryGetAmountAndWinner(st).found =>
              \A i \in DOMAIN st.bids :
                  TryGetAmountAndWinner(st).amount >= st.bids[i].Amount

\* C9: an accepted bid sets nextExpiry to max(previous expiry, bid.at +
\* timeFrame); a rejected bid and Increment leave the expiry as it is, so the
\* expiry never decreases; after an accepted bid b, Increment(now) does not
\* end the auction for any now < b.at + timeFrame.
C9_SoftCloseExtension ==
    IsTimedAscendingState(st) =>
        /\ \A bid \in StateBids : \A out \in AddBid(st, bid) :
              /\ out.err = nil =>
                    /\ out.state.kind = "Ongoing"
                    /\ out.state.nextExpiry =
                          Max(ExpiryOf(st), bid.At + st.options.TimeFrame)
              /\ out.err # nil => ExpiryOf(out.state) = ExpiryOf(st)
        /\ \A now \in 0..(MaxTime + 3) : \A next \in Increment(st, now) :
              /\ ExpiryOf(next) = ExpiryOf(st)
              /\ st.kind = "Ongoing" =>
                    \A i \in DOMAIN st.bids :
                        now < st.bids[i].At + st.options.TimeFrame =>
                            next.kind = "Ongoing"

C9_Witness ==
    /\ st.kind = "Ongoing"
    /\ Len(st.bids) >= 2
    /\ st.nextExpiry > sampleEndsAt
    /\ stErr.Type = "nil"

MaxOf(S) == CHOOSE x \in S : \A y \in S : x >= y

\* C11: a disclosing sealed-bid state with at least one bid reports as winner
\* the bidder of a bid with the maximum amount; the price is that maximum for
\* Blind, and for Vickrey the second-highest bid amount when there are at
\* least two bids and the winner's own amount when there is one.  With no
\* bids, or while not disclosing, there is no winner.
C11_SealedBidPricing ==
    st.kind = "SealedBid" =>
        LET w == TryGetAmountAndWinner(st)
            held == BidsHeld(st)
        IN
        IF ~st.disclosing \/ held = {}
        THEN ~w.found
        ELSE /\ w.found
             /\ \E top \in held :
                   /\ top.Bidder.ID = w.winner
                   /\ top.Amount = MaxOf({ b.Amount : b \in held })
                   /\ st.options = Blind => w.amount = top.Amount
                   /\ st.options = Vickrey =>
                         IF Cardinality(held) >= 2
                         THEN w.amount =
                                 MaxOf({ b.Amount : b \in held \ {top} })
                         ELSE w.amount = top.Amount

C11_Witness ==
    /\ st.kind = "SealedBid"
    /\ st.disclosing
    /\ st.options = Vickrey
    /\ Cardinality(BidsHeld(st)) >= 2
    /\ TryGetAmountAndWinner(st).amount < MaxOf({ b.Amount : b \in BidsHeld(st) })

\* the bidder ids of a sequence of bids are pairwise distinct
DistinctBidders(l) ==
    \A i, j \in DOMAIN l : l[i].Bidder.ID = l[j].Bidder.ID => i = j

\* in a sealed-bid state every bid is held under its bidder's id and every
\* sequence GetBids can return names each bidder once
OneBidPerBidder(s) ==
    /\ \A k \in DOMAIN s.bids : s.bids[k].Bidder.ID = k
    /\ \A l \in GetBids(s) :
          /\ DistinctBidders(l)
          /\ { l[i] : i \in DOMAIN l } = BidsHeld(s)

\* C12 (as stated): in every reachable sealed-bid state the bidder ids of the
\* held bids are pairwise distinct; a second AddBid by a bidder id that
\* already has a bid fails with AlreadyPlacedBid and leaves that bidder's
\* original bid in place.
C12_OneBidPerBidder ==
    st.kind = "SealedBid" =>
        /\ OneBidPerBidder(st)
        /\ \A bid \in StateBids : bid.Bidder.ID \in DOMAIN st.bids =>
              \A out \in AddBid(st, bid) :
                  /\ out.err = NewAlreadyPlacedBidError
                  /\ out.state.bids[bid.Bidder.ID] = st.bids[bid.Bidder.ID]

\* C12 (amended): in every reachable sealed-bid state the bidder ids of the
\* held bids are pairwise distinct; a second AddBid by a bidder id that
\* already has a bid fails with AlreadyPlacedBid while the state still
\* accepts at bid.at (not disclosing and bid.at before the expiry) and with
\* AuctionHasEnded otherwise; in both cases the bidder's original bid stays.
C12_OneBidPerBidderWhileAccepting ==
    st.kind = "SealedBid" =>
        /\ OneBidPerBidder(st)
        /\ \A bid \in StateBids : bid.Bidder.ID \in DOMAIN st.bids =>
              \A out \in AddBid(st, bid) :
                  /\ out.err =
                        IF st.disclosing \/ bid.At >= st.expiry
                        THEN NewAuctionHasEndedError(bid.ForAuction)
                        ELSE NewAlreadyPlacedBidError
                  /\ out.state.bids[bid.Bidder.ID] = st.bids[bid.Bidder.ID]
                  /\ BidsHeld(out.state) = BidsHeld(st)

C12_Witness ==
    /\ st.kind = "SealedBid"
    /\ ~st.disclosing
    /\ Cardinality(DOMAIN st.bids) >= 2
    /\ stErr.Type = "AlreadyPlacedBid"

\* the auction an event is about
AuctionOf(e) ==
    IF e.type = "AuctionAdded" THEN e.Auction.ID ELSE e.Bid.ForAuction

\* the sync.Map m holds the effect of the event: the added auction, or the
\* accepted bid in the auction's state
EffectIn(e, m) ==
    /\ AuctionOf(e) \in DOMAIN m
    /\ IF e.type = "AuctionAdded"
       THEN m[AuctionOf(e)].Auction = e.Auction
       ELSE e.Bid \in BidsHeld(m[AuctionOf(e)].State)

\* C13 (as stated): whenever the state of a stored auction as of the current
\* time yields a winner (its expiry is at or before the clock and its bids
\* determine one), the GET auction response carries that winner and price;
\* they are absent only when that state yields none.
C13_WinnerReported ==
    \A id \in DOMAIN auctions :
        \A cur \in Increment(auctions[id].State, clock) :
            \A resp \in getAuction(auctions, id) :
                LET w == TryGetAmountAndWinner(cur) IN
                /\ resp.hasWinner = w.found
                /\ w.found =>
                      /\ resp.Winner = w.winner
                      /\ resp.WinnerPrice = w.amount

\* C14 (as stated): under every interleaving of create-auction requests with
\* the same id at most one succeeds and at most one AuctionAddedEvent for the
\* id is passed to onEvent.
C14_OneAuctionAddedPerId ==
    /\ \A i, j \in DOMAIN accepted :
          (/\ accepted[i].type = "AuctionAdded"
           /\ accepted[j].type = "AuctionAdded"
           /\ accepted[i].Auction.ID = accepted[j].Auction.ID) => i = j
    /\ \A i, j \in DOMAIN persisted :
          (/\ persisted[i].type = "AuctionAdded"
           /\ persisted[j].type = "AuctionAdded"
           /\ persisted[i].Auction.ID = persisted[j].Auction.ID) => i = j

\* C15 (as stated): once all requests have completed, every bid whose
\* BidAcceptedEvent was passed to onEvent is in the in-memory state of its
\* auction; and a timed ascending bid about to be stored was validated
\* against the bids the auction holds at that moment.
C15_NoLostBid ==
    /\ NoWriteInFlight =>
          \A i \in DOMAIN persisted :
              persisted[i].type = "BidAccepted" => EffectIn(persisted[i], auctions)
    /\ \A w \in Writers :
          (/\ inflight[w].pc = "handled"
           /\ inflight[w].event.type = "BidAccepted") =>
              LET id == inflight[w].event.Bid.ForAuction
                  new == inflight[w].newRepo[id].State
              IN (id \in DOMAIN auctions /\ new.kind = "Ongoing") =>
                     Tail(new.bids) \in GetBids(auctions[id].State)

\* C16 (as stated): a request that targets one auction never changes the
\* stored state of a different auction when it writes its repository back.
C16_NoCrossAuctionRollback ==
    [][\A w \in Writers :
          (inflight[w].pc = "handled" /\ inflight'[w].pc = "stored") =>
              \A id \in DOMAIN auctions :
                  id # AuctionOf(inflight[w].event) =>
                      auctions'[id] = auctions[id]]_vars

\* the writes in flight
InFlight == { w \in Writers : inflight[w].pc # "idle" }

ValidatedAgainst(e, m) ==
    IF e.type = "AuctionAdded"
    THEN \A out \in Handle(AddAuctionCommand(clock, e.Auction), GetRepository(m)) :
             out.err = NewAuctionAlreadyExistsError(e.Auction.ID)
    ELSE m[AuctionOf(e)].State.kind = "SealedBid" =>
             \A out \in Handle(PlaceBidCommand(clock, e.Bid), GetRepository(m)) :
                 out.err # nil

IndexPermutations(n) ==
    { p \in [1..n -> 1..n] : \A i, j \in 1..n : p[i] = p[j] => i = j }

\* the reorderings of E that keep the events of each auction in their order
Reorderings(E) ==
    { [i \in 1..Len(E) |-> E[p[i]]] :
        p \in { q \in IndexPermutations(Len(E)) :
                  \A i, j \in 1..Len(E) :
                      (i < j /\ AuctionOf(E[q[i]]) = AuctionOf(E[q[j]])) =>
                          q[i] < q[j] } }

\* same ids, descriptors, states, bids and winners
EquivalentRepositories(a, b) ==
    /\ SameRepository(a, b)
    /\ \A id \in DOMAIN a :
          TryGetAmountAndWinner(a[id].State) = TryGetAmountAndWinner(b[id].State)

C20_ReplayDeterminism ==
    \A r \in EventsToAuctionStates(log) :
        /\ SameRepository(replayed, r)
        /\ \A id \in DOMAIN replayed :
              replayed[id].State.kind = "SealedBid" =>
                  \A s1 \in Increment(replayed[id].State, replayed[id].State.expiry) :
                      \A s2 \in Increment(r[id].State, r[id].State.expiry) :
                          /\ GetBids(s1) = GetBids(s2)
                          /\ TryGetAmountAndWinner(s1) = TryGetAmountAndWinner(s2)

\* C21 (as stated): every bid held by a timed ascending state of the
\* repository has at > startsAt of its auction, whatever the order in which
\* the bid timestamps arrive; a bid with at <= startsAt fails with
\* AuctionHasNotStarted.
C21_NoBidBeforeStart ==
    \A id \in DOMAIN repo :
        IsTimedAscendingState(repo[id].State) =>
            /\ \A b \in BidsHeld(repo[id].State) :
                  b.At > repo[id].Auction.StartsAt
            /\ \A b \in Bids :
                  (/\ b.ForAuction = id
                   /\ b.At <= repo[id].Auction.StartsAt
                   /\ ValidateBid(repo[id].Auction, b) = nil) =>
                      \A out \in Handle(PlaceBidCommand(b.At, b), repo) :
                          out.err = NewAuctionHasNotStartedError(id)

\* the callers, amounts and clock readings a request can come with
RequestUsers == HostBidders \cup {hostSeller}
RequestAmounts == {0, 1}
RequestTimes == 0..(MaxTime + 1)

\* the domain failures of a bid on an auction that exists
BidFailures ==
    {"SellerCannotPlaceBids", "AuctionHasNotStarted", "AuctionHasEnded",
     "MustPlaceBidOverHighestBid", "AlreadyPlacedBid"}

\* C22: a create request for an id the host holds is answered 409; a bid for
\* an id the host does not hold is answered 404; every other failure of
\* Handle (seller bidding, not started, ended, raise too small, duplicate
\* sealed bid) is answered 400; a request answered with one of these leaves
\* the sync.Map as it is and passes nothing to onEvent.
C22_StatusMapping ==
    /\ [](/\ \A req \in AuctionRequests, user \in RequestUsers, now \in RequestTimes :
                \A o \in createAuctionOutcomes(auctions, now, user, req) :
                    /\ req.ID \in DOMAIN auctions <=> o.status = 409
                    /\ req.ID \notin DOMAIN auctions <=> o.status = 0
                    /\ o.status # 0 =>
                          /\ o.out.event = NoEvent
                          /\ o.out.repo = GetRepository(auctions)
          /\ \A user \in RequestUsers, id \in AuctionIds,
                amount \in RequestAmounts, now \in RequestTimes :
                \A o \in placeBidOutcomes(auctions, now, user, id, amount) :
                    /\ id \notin DOMAIN auctions <=> o.status = 404
                    /\ o.out.err.Type \in BidFailures <=> o.status = 400
                    /\ o.out.err = nil <=> o.status \in {0, 404}
                    /\ o.status # 0 =>
                          /\ o.out.event = NoEvent
                          /\ o.out.repo = GetRepository(auctions))
    /\ [][(status' # status /\ status' \in {400, 404, 409}) =>
             /\ auctions' = auctions
             /\ inflight' = inflight
             /\ accepted' = accepted
             /\ persisted' = persisted]_vars

\* a bid has just been answered 400 while the host holds an auction with a
\* bid, and seller bidding, ended and one of raise too small and duplicate
\* sealed bid can be the failure of a next bid
C22_Witness ==
    /\ status = 400
    /\ Len(persisted) >= 2
    /\ \E id \in DOMAIN auctions : BidsHeld(auctions[id].State) # {}
    /\ \A T \in {{"SellerCannotPlaceBids"}, {"AuctionHasEnded"},
                 {"MustPlaceBidOverHighestBid", "AlreadyPlacedBid"}} :
          \E user \in RequestUsers, id \in AuctionIds,
             amount \in RequestAmounts, now \in RequestTimes :
              \E o \in placeBidOutcomes(auctions, now, user, id, amount) :
                  o.out.err.Type \in T /\ o.status = 400

\* C23 (as stated): decoding the encoding of a value gives the value back,
\* for every User, every Amount (any currency tag, any int64 value), every
\* AuctionType built by NewTimedAscendingType or NewSingleSealedBidType, and
\* every command and event wrapping them.
C23_CodecRoundTrip ==
    back # NoValue => back.result = Decoded(plain.value)

\* C24 (as stated): in every reachable Ongoing or Ended state the amounts of
\* bids are strictly decreasing from head to tail; a bid whose amount equals
\* the current highest amount is never accepted.
C24_StrictlyRaisingBids ==
    st.kind \in {"Ongoing", "Ended"} =>
        /\ \A i, j \in DOMAIN st.bids :
              i < j => st.bids[i].Amount > st.bids[j].Amount
        /\ Len(st.bids) > 0 =>
              \A bid \in StateBids : bid.Amount = st.bids[1].Amount =>
                  \A out \in AddBid(st, bid) : out.err # nil

\* the clock readings Increment is called with
IncrementTimes == 0..(MaxTime + 1)

\* C25 (as stated): AwaitingStart.Increment(now) returns Ended (no bids,
\* expiry = startingExpiry) for every now >= startingExpiry and Ongoing (no
\* bids, nextExpiry = startingExpiry) exactly when startsAt < now <
\* startingExpiry, whatever startsAt and startingExpiry are.
C25_EndedAtExpiry ==
    st.kind = "AwaitingStart" =>
        \A now \in IncrementTimes : \A next \in Increment(st, now) :
            /\ now >= st.startingExpiry =>
                  next = EndedState(<<>>, st.startingExpiry, st.options)
            /\ next.kind = "Ongoing" <=>
                  (st.start < now /\ now < st.startingExpiry)
            /\ next.kind = "Ongoing" =>
                  next = OngoingState(<<>>, st.startingExpiry, st.options)

\* C25 (amended): AwaitingStart.Increment(now) returns Ended (no bids,
\* expiry = startingExpiry) for every now with now > startsAt and now >=
\* startingExpiry, Ongoing (no bids, nextExpiry = startingExpiry) exactly
\* when startsAt < now < startingExpiry, and the state itself for every
\* now <= startsAt, also when now >= startingExpiry.
C25_EndedAtExpiryOnceStarted ==
    st.kind = "AwaitingStart" =>
        \A now \in IncrementTimes : \A next \in Increment(st, now) :
            /\ (now > st.start /\ now >= st.startingExpiry) =>
                  next = EndedState(<<>>, st.startingExpiry, st.options)
            /\ next.kind = "Ongoing" <=>
                  (st.start < now /\ now < st.startingExpiry)
            /\ next.kind = "Ongoing" =>
                  next = OngoingState(<<>>, st.startingExpiry, st.options)
            /\ now <= st.start => next = st

\* an auction that starts after its expiry has been refused a bid as not
\* started and is still awaiting its start
C25_Witness ==
    /\ st.kind = "AwaitingStart"
    /\ st.start > st.startingExpiry
    /\ stErr.Type = "AuctionHasNotStarted"

\* the bids that can be placed at the instant at
BidsAt(at) == { NewBid(1, u, at, amount) : u \in Bidders, amount \in Amounts }

\* C26: at now = startsAt a timed ascending auction is still awaiting its
\* start and a bid at that instant fails with AuctionHasNotStarted; at now =
\* nextExpiry an Ongoing state becomes Ended with the same bids and a bid at
\* that instant fails with AuctionHasEnded; at now = expiry a sealed-bid
\* state starts disclosure.
C26_BoundaryInstants ==
    /\ st.kind = "AwaitingStart" =>
          /\ Increment(st, st.start) = {st}
          /\ \A bid \in BidsAt(st.start) : \A out \in AddBid(st, bid) :
                /\ out.err = NewAuctionHasNotStartedError(bid.ForAuction)
                /\ out.state = st
    /\ st.kind = "Ongoing" =>
          /\ Increment(st, st.nextExpiry) =
                {EndedState(st.bids, st.nextExpiry, st.options)}
          /\ \A bid \in BidsAt(st.nextExpiry) : \A out \in AddBid(st, bid) :
                /\ out.err = NewAuctionHasEndedError(bid.ForAuction)
                /\ out.state.kind = "Ended"
                /\ out.state.bids = st.bids
    /\ (st.kind = "SealedBid" /\ ~st.disclosing) =>
          /\ \A next \in Increment(st, st.expiry) :
                next.disclosing /\ next.bids = st.bids
          /\ \A bid \in BidsAt(st.expiry) : \A out \in AddBid(st, bid) :
                /\ out.err = NewAuctionHasEndedError(bid.ForAuction)
                /\ out.state.disclosing

\* an auction with bids that was ended at the very instant of its expiry
\* (the last instant of the clock) by a bid placed at that instant
C26_Witness ==
    /\ st.kind = "Ended"
    /\ Len(st.bids) >= 1
    /\ st.expiry = sampleEndsAt
    /\ stErr.Type = "AuctionHasEnded"

\* C27: a bid on a stored AwaitingStart state is judged on the state
\* refreshed to bid.at: still AwaitingStart gives AuctionHasNotStarted,
\* Ongoing accepts the bid as first bid (Ongoing with exactly that bid and
\* nextExpiry = max(startingExpiry, bid.at + timeFrame)), Ended gives
\* AuctionHasEnded; after a failed bid Handle leaves the stored state
\* AwaitingStart.
C27_FirstBidFromAwaitingStart ==
    \A id \in DOMAIN repo :
        LET s == repo[id].State IN
        s.kind = "AwaitingStart" =>
            \A bid \in Bids :
                (bid.ForAuction = id /\ ValidateBid(repo[id].Auction, bid) = nil) =>
                    \A refreshed \in Increment(s, bid.At) :
                        /\ \A out \in AddBid(s, bid) :
                              CASE refreshed.kind = "AwaitingStart" ->
                                     out.err = NewAuctionHasNotStartedError(id)
                                [] refreshed.kind = "Ongoing" ->
                                     /\ out.err = nil
                                     /\ out.state =
                                           OngoingState(<<bid>>,
                                               Max(s.startingExpiry,
                                                   bid.At + s.options.TimeFrame),
                                               s.options)
                                [] refreshed.kind = "Ended" ->
                                     out.err = NewAuctionHasEndedError(id)
                        /\ \A out \in Handle(PlaceBidCommand(bid.At, bid), repo) :
                              IF refreshed.kind = "Ongoing"
                              THEN /\ out.err = nil
                                   /\ out.repo[id].State.kind = "Ongoing"
                                   /\ out.repo[id].State.bids = <<bid>>
                              ELSE /\ out.err # nil
                                   /\ out.repo[id].State = s

\* a bid has just been refused as too early, another auction already took
\* a bid, and the refused auction is still stored as AwaitingStart
C27_Witness ==
    /\ lastErr.Type = "AuctionHasNotStarted"
    /\ lastErr.AuctionId \in DOMAIN repo
    /\ repo[lastErr.AuctionId].State.kind = "AwaitingStart"
    /\ \E id \in DOMAIN repo : BidsHeld(repo[id].State) # {}

\* C28: a state with HasEnded (Ended, or a disclosing sealed-bid state) is
\* terminal: Increment with any now, earlier ones included, and AddBid with
\* any bid return a state with HasEnded, the same bids and the same result
\* of TryGetAmountAndWinner; and no timed ascending state goes back from
\* Ongoing to AwaitingStart or from Ended to Ongoing.
C28_TerminalAndMonotone ==
    /\ [](HasEnded(st) =>
            /\ \A now \in IncrementTimes : \A next \in Increment(st, now) :
                  /\ HasEnded(next)
                  /\ GetBids(next) = GetBids(st)
                  /\ TryGetAmountAndWinner(next) = TryGetAmountAndWinner(st)
            /\ \A bid \in StateBids : \A out \in AddBid(st, bid) :
                  /\ HasEnded(out.state)
                  /\ GetBids(out.state) = GetBids(st)
                  /\ TryGetAmountAndWinner(out.state) = TryGetAmountAndWinner(st))
    /\ [][/\ HasEnded(st) =>
                /\ HasEnded(st')
                /\ GetBids(st') = GetBids(st)
                /\ TryGetAmountAndWinner(st') = TryGetAmountAndWinner(st)
          /\ st.kind = "Ongoing" => st'.kind \in {"Ongoing", "Ended"}
          /\ st.kind = "Ended" => st'.kind = "Ended"
          /\ st.kind = "SealedBid" => st'.kind = "SealedBid"]_vars

\* a disclosing sealed-bid state with two bids and a winner has just refused
\* a bid
C28_Witness ==
    /\ st.kind = "SealedBid"
    /\ st.disclosing
    /\ Len(st.bidsList) >= 2
    /\ TryGetAmountAndWinner(st).found
    /\ stErr.Type = "AuctionHasEnded"

\* C29 (as stated): an auction of any type created with startsAt > expiry
\* never accepts a bid: Handle returns an error for every PlaceBid on it and
\* its state never holds a bid.
C29_LateStartNeverAccepts ==
    \A id \in DOMAIN repo :
        repo[id].Auction.StartsAt > repo[id].Auction.Expiry =>
            /\ BidsHeld(repo[id].State) = {}
            /\ \A b \in Bids : b.ForAuction = id =>
                  \A out \in Handle(PlaceBidCommand(b.At, b), repo) :
                      out.err # nil

\* the amounts of the sequence never increase from head to tail
NonIncreasing(l) ==
    \A i, j \in DOMAIN l : i < j => l[i].Amount >= l[j].Amount

\* the sequence l holds exactly the bids of the map m, one per bidder
ExactlyTheBidsOf(l, m) ==
    /\ Len(l) = Cardinality(DOMAIN m)
    /\ { l[i] : i \in DOMAIN l } = { m[k] : k \in DOMAIN m }
    /\ DistinctBidders(l)

\* C30: Increment(now) on an accepting sealed-bid state starts disclosure
\* exactly when now >= expiry; the disclosed sequence holds exactly the bids
\* accepted before, one per bidder, sorted non-increasing by amount; for
\* now < expiry the state is unchanged.  Every reachable disclosing state
\* has such a sequence.
C30_SealedBidDisclosure ==
    st.kind = "SealedBid" =>
        /\ ~st.disclosing =>
              \A now \in IncrementTimes : \A next \in Increment(st, now) :
                  IF now >= st.expiry
                  THEN /\ next.disclosing
                       /\ next.bids = st.bids
                       /\ next.expiry = st.expiry
                       /\ next.options = st.options
                       /\ ExactlyTheBidsOf(next.bidsList, st.bids)
                       /\ NonIncreasing(next.bidsList)
                       /\ GetBids(next) = {next.bidsList}
                  ELSE next = st
        /\ st.disclosing =>
              /\ ExactlyTheBidsOf(st.bidsList, st.bids)
              /\ NonIncreasing(st.bidsList)

\* a disclosing state whose two bids have different amounts
C30_Witness ==
    /\ st.kind = "SealedBid"
    /\ st.disclosing
    /\ Len(st.bidsList) >= 2
    /\ st.bidsList[1].Amount > st.bidsList[2].Amount
    /\ st.bidsList[1].At > st.bidsList[2].At

\* the expiry in force for a state
ExpiryInForce(s) == IF s.kind = "SealedBid" THEN s.expiry ELSE ExpiryOf(s)

AddedBefore(l, n) ==
    { l[j].Auction.ID : j \in { k \in 1..n : l[k].type = "AuctionAdded" } }

\* a BidAcceptedEvent of the log that has no entry at its point of the log
IsOrphan(l, i) ==
    /\ l[i].type = "BidAccepted"
    /\ l[i].Bid.ForAuction \notin AddedBefore(l, i - 1)

RECURSIVE WithoutOrphansFrom(_, _)
WithoutOrphansFrom(l, i) ==
    IF i > Len(l)
    THEN <<>>
    ELSE IF IsOrphan(l, i)
    THEN WithoutOrphansFrom(l, i + 1)
    ELSE <<l[i]>> \o WithoutOrphansFrom(l, i + 1)

\* the log without its orphan events
WithoutOrphans(l) == WithoutOrphansFrom(l, 1)

\* C32: a BidAcceptedEvent for an id without an entry leaves the repository
\* as it is (no entry created, every entry unchanged), and the fold goes on:
\* the repository folded from a log is one folded from the log without its
\* orphan events, its entries are the ids of the AuctionAddedEvents, and an
\* AuctionAddedEvent that follows an orphan starts the auction with no bids.
C32_ReplaySkipsOrphans ==
    /\ DOMAIN replayed = AddedBefore(log, Len(log))
    /\ replayed \in EventsToAuctionStates(WithoutOrphans(log))
    /\ \A e \in LogEvents :
          (e.type = "BidAccepted" /\ e.Bid.ForAuction \notin DOMAIN replayed) =>
              /\ ApplyEvent(replayed, e) = {replayed}
              /\ \A a \in LogEvents :
                    (a.type = "AuctionAdded" /\ a.Auction.ID = e.Bid.ForAuction) =>
                        \A r \in ApplyEvent(replayed, a) :
                            BidsHeld(r[a.Auction.ID].State) = {}

\* the log holds an orphan bid, then the AuctionAddedEvent of its auction,
\* then a bid of that auction which the repository holds
C32_Witness ==
    /\ Len(log) >= 3
    /\ \E i \in 1..Len(log) : \E j \in 1..Len(log) :
          /\ i < j
          /\ IsOrphan(log, i)
          /\ log[j].type = "AuctionAdded"
          /\ log[j].Auction.ID = log[i].Bid.ForAuction
          /\ log[j].Auction.ID \in DOMAIN replayed
          /\ BidsHeld(replayed[log[j].Auction.ID].State) # {}
          /\ log[i].Bid \notin BidsHeld(replayed[log[j].Auction.ID].State)

\* C33: an AuctionAddedEvent for an id that has an entry replaces the entry
\* by the new descriptor with a fresh empty state and leaves the entries of
\* the other ids unchanged, while Handle rejects the AddAuction command of
\* the same auction with AuctionAlreadyExists and returns the repository
\* unchanged.
C33_ReplayLastWriteWins ==
    \A e \in LogEvents :
        (e.type = "AuctionAdded" /\ e.Auction.ID \in DOMAIN replayed) =>
            /\ \A r \in ApplyEvent(replayed, e) :
                  /\ DOMAIN r = DOMAIN replayed
                  /\ r[e.Auction.ID] =
                        Entry(e.Auction, CreateEmptyState(e.Auction))
                  /\ BidsHeld(r[e.Auction.ID].State) = {}
                  /\ \A id \in DOMAIN replayed \ {e.Auction.ID} :
                        r[id] = replayed[id]
            /\ \A out \in Handle(AddAuctionCommand(e.Time, e.Auction), replayed) :
                  /\ out.err = NewAuctionAlreadyExistsError(e.Auction.ID)
                  /\ out.event = NoEvent
                  /\ out.repo = replayed

\* the log added an auction, replayed a bid of it and then added another
\* auction under the same id: the entry has the new descriptor and no bids,
\* and the entry of the other id still holds its bid
C33_Witness ==
    /\ Len(log) >= 3
    /\ \E i \in 1..Len(log) : \E j \in 1..Len(log) : \E k \in 1..Len(log) :
          /\ i < j /\ j < k
          /\ log[i].type = "AuctionAdded"
          /\ log[j].type = "BidAccepted"
          /\ log[j].Bid.ForAuction = log[i].Auction.ID
          /\ log[k].type = "AuctionAdded"
          /\ log[k].Auction.ID = log[i].Auction.ID
          /\ log[k].Auction # log[i].Auction
          /\ \A m \in (k + 1)..Len(log) : log[m].type # "AuctionAdded"
          /\ replayed[log[k].Auction.ID].Auction = log[k].Auction
          /\ BidsHeld(replayed[log[k].Auction.ID].State) = {}

\* what a request that stops with an error response leaves alone
NoHostEffect ==
    UNCHANGED <<auctions, inflight, accepted, persisted, clock, onEventErr>>

\* C35 (as stated): a create-auction or place-bid request (run by the next
\* idle goroutine) whose header is
\* missing, undecodable or carries another u_typ is answered 401 and leaves
\* the repository, the requests in flight, the events Handle accepted and
\* the events handed to onEvent as they are.
C35_UnauthenticatedWritesHaveNoEffect ==
    [][\A w \in {NextWriter} : \A decodes \in BOOLEAN : \A header \in BadHeaders :
          /\ \A req \in AuctionRequests :
                createAuction(w, decodes, header, req) =>
                    (status' = 401 /\ NoHostEffect)
          /\ \A id \in AuctionIds : \A amount \in BidAmounts :
                placeBid(w, decodes, header, id, amount) =>
                    (status' = 401 /\ NoHostEffect)]_vars

\* C35 (amended): such a request leaves the repository, the requests in
\* flight, the events Handle accepted and the events handed to onEvent as
\* they are; it is answered 401 when its body (and, for a bid, the id of
\* its path) decodes and 400 when it does not.
C35_UnauthenticatedWritesHaveNoEffectOnceDecoded ==
    [][\A w \in {NextWriter} : \A decodes \in BOOLEAN : \A header \in BadHeaders :
          /\ \A req \in AuctionRequests :
                createAuction(w, decodes, header, req) =>
                    /\ status' = IF decodes THEN 401 ELSE 400
                    /\ NoHostEffect
          /\ \A id \in AuctionIds : \A amount \in BidAmounts :
                placeBid(w, decodes, header, id, amount) =>
                    /\ status' = IF decodes THEN 401 ELSE 400
                    /\ NoHostEffect]_vars

\* a request without identity has just been answered while the repository
\* holds an auction with a bid and onEvent has been handed two events
C35_Witness ==
    /\ status = 401
    /\ Len(persisted) >= 2
    /\ \E id \in DOMAIN auctions : BidsHeld(auctions[id].State) # {}
    /\ \A h \in BadHeaders : extractUserFromRequest(h).failed
    /\ \A h \in DOMAIN JwtTable \ BadHeaders : ~extractUserFromRequest(h).failed

\* C34 (as stated): an ended timed ascending auction that holds a bid has
\* no winner only when the bid at the head is below the reserve price; a
\* head bid whose amount equals the reserve price wins at that amount.
C34_ReserveIsMinimumSalePrice ==
    (st.kind = "Ended" /\ Len(st.bids) > 0) =>
        LET w == TryGetAmountAndWinner(st)
            top == st.bids[1]
        IN /\ ~w.found => top.Amount < st.options.ReservePrice
           /\ top.Amount = st.options.ReservePrice =>
                 /\ w.found
                 /\ w.winner = top.Bidder.ID
                 /\ w.amount = top.Amount

\* the entries of every id but one are the same in r and in q
SameButFor(r, q, id) == \A k \in DOMAIN r \ {id} : q[k] = r[k]

NotEnded(s) ==
    /\ \/ s.kind \in {"AwaitingStart", "Ongoing"}
       \/ s.kind = "SealedBid" /\ ~s.disclosing
    /\ ~HasEnded(s)
    /\ ~TryGetAmountAndWinner(s).found

\* C37: every state stored in a repository reached by Handle calls, and in
\* every repository folded from the events those calls emitted, is
\* AwaitingStart, Ongoing or a sealed-bid state that is not disclosing;
\* HasEnded is false and TryGetAmountAndWinner finds no winner for it.
C37_StoredStatesNeverEnded ==
    /\ \A id \in DOMAIN repo : NotEnded(repo[id].State)
    /\ \A r \in EventsToAuctionStates(events) :
          \A id \in DOMAIN r : NotEnded(r[id].State)

\* a sealed-bid auction that holds a bid has just refused a bid as too late
\* and still accepts bids stamped before its expiry
C37_Witness ==
    /\ lastErr.Type = "AuctionHasEnded"
    /\ lastErr.AuctionId \in DOMAIN repo
    /\ repo[lastErr.AuctionId].State.kind = "SealedBid"
    /\ BidsHeld(repo[lastErr.AuctionId].State) # {}
    /\ Len(events) >= 2

\* the bids of bidders other than the seller for auction id of r stamped
\* at one of the instants ts
BidsFor(r, id, ts) ==
    { b \in PacedBids : /\ b.ForAuction = id
                        /\ b.At \in ts
                        /\ ValidateBid(r[id].Auction, b) = nil }

\* some bid stamped now is refused by auction id as too late
Late(r, now, id) ==
    /\ id \in DOMAIN r
    /\ \E b \in BidsFor(r, id, {now}) :
          \E out \in Handle(PlaceBidCommand(now, b), r) :
              out.err = NewAuctionHasEndedError(id)

\* every bid stamped now or later is refused by auction id as too late and
\* leaves the repository as it is
Closed(r, now, id) ==
    /\ id \in DOMAIN r
    /\ \A b \in BidsFor(r, id, now..MaxTime) :
          \A out \in Handle(PlaceBidCommand(b.At, b), r) :
              /\ out.err = NewAuctionHasEndedError(id)
              /\ out.repo = r

C39_RequestedTypeKept ==
    \A id \in DOMAIN auctions : \A req \in AuctionRequests :
        req.ID = id =>
            /\ auctions[id].Auction.Type = req.Type
            /\ req.Type.Type = TimedAscending =>
                  auctions[id].State.options =
                      ParseTimedAscendingOptions(req.Type.Options).options

\* C40 (as stated): for a minimum raise that is not negative, an Ongoing
\* state that holds a bid accepts no bid whose amount is lower than the
\* amount of the bid at its head, whatever the sum of that amount and the
\* minimum raise is.
C40_NoLowerBidAccepted ==
    (st.kind = "Ongoing" /\ Len(st.bids) > 0 /\ st.options.MinRaise >= 0) =>
        \A bid \in StateBids :
            bid.Amount < st.bids[1].Amount =>
                \A out \in AddBid(st, bid) : out.err # nil

====
